---- MODULE Spec2Model ----
(***************************************************************************)
(* Model of the ikanban agent orchestration engine.                        *)
(*                                                                         *)
(* Part 1: server::SessionManager (src/src/server/session.rs) together     *)
(* with the rows it persists, the sessionID -> process registry, the agent *)
(* subprocess and its stdout tail task.  Every await of a SessionManager   *)
(* method is one atomic step of the calling client, so calls of different  *)
(* clients interleave exactly at the suspension points of the code.        *)
(***************************************************************************)
EXTENDS Integers, Sequences, FiniteSets, TLC

(* ----------------------------- bounds ---------------------------------- *)
MaxSessions == 2
MaxExecs == 2
MaxCalls == 3
MaxLines == 1
MaxTime == 1
\* number of push calls on one MsgStore
MaxPush == 3
\* capacity of the broadcast channel of a MsgStore: 1024 in msg_store.rs:34, scaled down
ChannelCapacity == 2
\* number of session.error events of one run
MaxErrors == 2
\* largest attempt number exponential_backoff is called with (a u32 in the source)
MaxAttempt == 34
\* number of characters that follow the run of filler characters of a slug
MaxTail == 2
\* number of SDK events a LogState is fed
MaxParts == 3
\* number of items the event stream delivers to one listener
MaxEvents == 2
\* number of messages a listener pushes while it reconnects
MaxStore == 20
\* number of reconnection requests the server refuses while ids are tracked
MaxRefusals == 1
\* Duration::MAX in milliseconds, scaled down
DurationMaxMs == 2000000

Clients == {"c1", "c2"}
\* the lines the agent writes to stdout, in order
Script == << "a", "b", "c" >>

(* ------------------------- static collaborators ------------------------ *)
\* rows of the tasks table: task id -> project_id
TaskRows == [tA |-> "p1", tB |-> "p1", tNoProj |-> "pGone"]
\* ids a caller may pass as task_id ("tGone" has no row)
TaskIds == {"tA", "tB", "tNoProj", "tGone"}
\* ids of the rows of the projects table
ProjectRows == {"p1"}
\* branch_name arguments a caller may pass; << >> is Option::None
BranchArgs == {<< >>, <<"dev">>}

\* NULL of a timestamp column
NullTime == -1
\* Option::None of a path or of a branch name
NoPath == << >>
NoBranch == << >>
NoRes == [kind |-> "none", from |-> "none", to |-> "none"]

(* --------------------------- SessionStatus ----------------------------- *)
Statuses == {"pending", "running", "completed", "failed", "cancelled"}
Terminal == {"completed", "failed", "cancelled"}

\* the edge set of section 4.4 of the specification, written out
AllowedEdges ==
  { <<"pending", "running">>, <<"pending", "cancelled">>,
    <<"running", "completed">>, <<"running", "failed">>,
    <<"running", "cancelled">> }

\* a transition check that lets a terminal status be left again
can_transition_to_loose(from, target) ==
  \/ <<from, target>> \in AllowedEdges
  \/ from \in Terminal /\ target = "cancelled" /\ from # target

\* a transition check that also accepts a status it is already in
can_transition_to_reflexive(from, target) ==
  \/ <<from, target>> \in AllowedEdges
  \/ from = target

\* SessionStatus::can_transition_to: the matches! arms, in source order
can_transition_to(from, target) ==
  \/ from = "pending" /\ target = "running"
  \/ from = "pending" /\ target = "cancelled"
  \/ from = "running" /\ target = "completed"
  \/ from = "running" /\ target = "failed"
  \/ from = "running" /\ target = "cancelled"

(* ------------------------------ state ---------------------------------- *)
VARIABLES
  sessions,     \* sessions table: sequence of rows, id = index
  execs,        \* execution_processes table: sequence of rows, id = index
  turns,        \* coding_agent_turns table: sequence of rows in insert order
  registry,     \* running_processes: session id -> execution id of the handle, 0 = absent
  regLock,      \* holder of the running_processes write lock, "free" if none
  procs,        \* agent subprocesses, by execution id
  tails,        \* stdout tail tasks, by execution id
  gitWorktrees, \* worktrees of the repository: set of [path, branch]
  gitBranches,  \* branches of the repository
  cl,           \* per client: the call in progress and its locals
  ret,          \* the call that returned in the last step and its result; NoRet otherwise
  ncalls,       \* number of calls issued so far
  stopCalls,    \* history: the session ids stop_session was called with
  startedOk,    \* history: the execution ids start_agent returned Ok with
  clock         \* wall clock read by chrono_now()

smVars == << sessions, execs, turns, registry, regLock, procs, tails,
             gitWorktrees, gitBranches, cl, ret, ncalls, stopCalls, startedOk, clock >>

\* executor::MsgStore, one per execution, and the tasks that use it
VARIABLES
  messages,     \* MsgStore.messages: the Vec<LogMsg> behind the RwLock
  chan,         \* MsgStore.notify: the broadcast channel
  rx,           \* broadcast receivers, by subscriber
  pushing,      \* per producer: the message of a push between its two statements
  pushed,       \* history: the messages push was called with, in call order
  lastAll,      \* history: the caller and the result of the latest get_all
  nz            \* the task spawned by normalize_logs: its position, its LogState and,
                \* as history, the lines it gave to process_line since the LogState was new

msVars == << messages, chan, rx, pushing, pushed, lastAll, nz >>

\* opencode::sdk::run_session, one call, with its event listener and its caller
VARIABLES
  run,          \* run_session: where it is suspended and its locals
  signal,       \* the sender of the interrupt oneshot: "unsent" or "sent"
  control,      \* the mpsc channel of ControlEvents, listener -> run_session
  listener,     \* the task of spawn_event_listener
  seen          \* history: what the server and the caller did during the run

rsVars == << run, signal, control, listener, seen >>

\* opencode::sdk::exponential_backoff: the arguments and the result of a call
VARIABLES backoff

bkVars == << backoff >>

\* opencode::sdk::spawn_event_listener, the task on its own with its server
VARIABLES el

evVars == << el >>

\* opencode::normalize::LogState, fed with SDK events one at a time
VARIABLES ls

lgVars == << ls >>

\* server::worktree: a call of generate_branch_name and calls of create_worktree
VARIABLES bn, cw

wtVars == << bn, cw >>

\* sdk::prompt: the latest call, its inputs and its result
VARIABLES pr

prVars == << pr >>

restVars == << evVars, lgVars, wtVars, prVars >>

exVars == << msVars, rsVars, bkVars, restVars >>

vars == << smVars, exVars >>

\* tasks holding a broadcast::Receiver of the store
Subscribers == {"early", "late", "normalizer"}

\* the task that calls push
Producers == {"p1"}

\* two tasks that call push at the same time, on two threads of the runtime
ConcurrentProducers == {"p1", "p2"}

\* a line of agent output: a message.part.updated event of one reasoning part,
\* with a delta or with the full text of the part
Lines == {[delta |-> TRUE, text |-> "a"], [delta |-> FALSE, text |-> "b"]}

\* enum LogMsg (msg_store.rs:7-18)
Stdout(line) == [kind |-> "Stdout", line |-> line]
NoLine == [delta |-> FALSE, text |-> ""]
Finished == [kind |-> "Finished", line |-> NoLine]
LogMsgs == { Stdout(l) : l \in Lines } \cup {Finished}

NoMsg == [kind |-> "none", line |-> NoLine]

\* no receiver; a receiver records where it was created, what it returned and
\* whether it ever returned Lagged
NoRx == [open |-> FALSE, next |-> 0, from |-> 0, got |-> << >>, lagged |-> FALSE]

\* broadcast::channel(1024) (msg_store.rs:34): a ring of ChannelCapacity slots,
\* each holding a value and the position it was sent at, and the position of
\* the next send; slot i starts at position i - capacity
NewChannel ==
  [pos |-> 0,
   buf |-> [i \in 0..(ChannelCapacity - 1) |-> [pos |-> i - ChannelCapacity, val |-> NoMsg]]]

NoAll == [by |-> "none", val |-> << >>]

\* ids of the messages the SDK events are about
MessageIds == {"m1", "m2"}

\* a value of HashMap<String, StreamingText> at a key: has says that the key is
\* in the map, content is the text as a sequence of characters
NoText == [has |-> FALSE, content |-> << >>]

\* LogState::new (normalize.rs:94-96): no role and no streaming text yet; the
\* tool_states map is left out, it is touched by tool parts only
NewLogState ==
  [message_roles |-> [id \in MessageIds |-> "none"],
   assistant_text |-> [id \in MessageIds |-> NoText],
   thinking_text |-> [id \in MessageIds |-> NoText]]

\* MsgStore::new (msg_store.rs:33-39) and a normalize_logs task not yet run
MSInit ==
  /\ messages = << >>
  /\ chan = NewChannel
  /\ rx = [s \in Subscribers |-> NoRx]
  /\ pushing = [p \in ConcurrentProducers |-> NoMsg]
  /\ pushed = << >>
  /\ lastAll = NoAll
  /\ nz = [pc |-> "get_all", state |-> NewLogState, processed |-> << >>]

\* run_session right after its call: `interrupted = false`,
\* `interrupt_rx = Some(interrupt_rx)` (sdk.rs:75-76), about to wait for health.
\* fut is the request of the current step: "new" until first polled, "sent"
\* while outstanding, then "ok" or "err"; held says that the interrupt branch of
\* the select in progress has taken the receiver; suspended says that the last
\* poll of that select found no branch ready
NewRun ==
  [pc |-> "health", suspended |-> FALSE, interrupt_rx |-> "some", held |-> FALSE, fut |-> "new",
   idle_seen |-> FALSE, session_error |-> << >>, aborted |-> FALSE,
   disconnected_at |-> "none", result |-> "none", message |-> << >>]

NoSeen ==
  [signalled_at |-> "none", failed |-> FALSE, prompt_ok |-> FALSE, errors |-> << >>,
   idle |-> FALSE]

RSInit ==
  /\ run = NewRun
  /\ signal = "unsent"
  /\ control = << >>
  /\ listener = "none"
  /\ seen = NoSeen

NoBackoff == [base |-> 0, attempt |-> 0, delay |-> -1]

BKInit == backoff = NoBackoff

\* base_retry_delay of the listener: Duration::from_millis(3000) (sdk.rs:527)
DefaultBaseMs == 3000

\* session ids an envelope can carry at one of its three places: this run's, another
\* session's, or none (the field is absent or not a string)
SidValues == {"none", "ours", "other"}

\* event types: the ones event_matches_session names (permission.replied goes the
\* way of permission.asked) and session.status for the types it does not name
EventTypes ==
  {"message.updated", "message.part.updated", "permission.asked", "session.idle",
   "session.error", "session.status"}

\* the texts /properties/error/data/message can hold; "none" when it is absent
EnvelopeMessages == {"none", "e1"}

\* a JSON envelope {type, properties}: psid is /properties/sessionID, isid is
\* /properties/info/sessionID, qsid is /properties/part/sessionID
Envelopes ==
  [type : EventTypes, psid : SidValues, isid : SidValues, qsid : SidValues,
   msg : EnvelopeMessages]

NoEnvelope == [type |-> "none", psid |-> "none", isid |-> "none", qsid |-> "none", msg |-> "none"]

\* the retry field of an SSE event in milliseconds; 0 when the event has none
Retries == {0, 1000}

\* an item of the SSE stream: data is "empty", "nonjson", "notype" (JSON with no
\* string `type`) or "json" with the envelope
NoItem == [data |-> "none", retry |-> 0, env |-> NoEnvelope, id |-> << >>]

\* `let mut last_event_id: Option<String> = None` (sdk.rs:526)
NoEventId == [some |-> FALSE, value |-> << >>]

\* a request for the event stream without a Last-Event-ID header
NoHeader == [sent |-> FALSE, value |-> << >>]

\* what process_event_stream did with an item
NoDid == [pushed |-> "none", sent |-> "none"]

\* spawn_event_listener at its first await: `attempt = 0`, the initial response
\* taken, process_event_stream reading it (sdk.rs:526-566). failed counts the
\* connect_event_stream calls that failed since the stream was last open, nev the
\* items read, last and did the latest item and what was done with it. hdr is the
\* Last-Event-ID header of the latest connection request (the first one is
\* run_session's, with no id, sdk.rs:139), reconnects counts the requests the
\* listener made, hist keeps the id and retry fields that arrived, in order
NewListener ==
  [pc |-> "stream", attempt |-> 0, base |-> DefaultBaseMs, delay |-> 0, failed |-> 0,
   nev |-> 0, last |-> NoItem, did |-> NoDid,
   last_event_id |-> NoEventId, hdr |-> NoHeader, reconnects |-> 0, hist |-> << >>]

EVInit == el = NewListener

\* the kinds of part that carry streaming text
TextKinds == {"text", "reasoning"}

\* a LogState that was fed no event yet. fed keeps, per kind of part and
\* message, the delta fragments that arrived in order, whether an update without
\* a delta arrived, and whether a fragment arrived while the message's recorded
\* role was not assistant; n counts the events; last is the latest event
NoFed == [deltas |-> << >>, set |-> FALSE, unowned |-> FALSE]

NoSdkEvent ==
  [type |-> "none", id |-> "none", role |-> "none", kind |-> "none", text |-> << >>,
   has_delta |-> FALSE, delta |-> << >>]

LGInit ==
  ls = [state |-> NewLogState, fed |-> [k \in TextKinds |-> [id \in MessageIds |-> NoFed]],
        n |-> 0, last |-> NoSdkEvent, before |-> NewLogState]

\* worktree::generate_branch_name not yet called
NoBranchName == [called |-> FALSE, task_id |-> 0, slug |-> << >>, panic |-> FALSE, out |-> << >>]

\* worktree::create_worktree not in progress: n counts the calls made, first
\* and second are what the two git commands of the latest call did ("none" when
\* not run), res is what the latest call returned
NoCreate ==
  [pc |-> "idle", n |-> 0, task_id |-> "none", branch |-> NoBranch, path |-> NoPath,
   first |-> "none", second |-> "none", res |-> "none"]

WTInit == bn = NoBranchName /\ cw = NoCreate

\* no HTTP response
NoResponse ==
  [status |-> 0, kind |-> "none", info |-> FALSE, parts |-> FALSE, name |-> "absent",
   message |-> "absent"]

\* prompt was not called
NoPrompt == [called |-> FALSE, resp |-> NoResponse, ok |-> FALSE, error |-> << >>]

PRInit == pr = NoPrompt

EXInit == MSInit /\ RSInit /\ BKInit /\ EVInit /\ LGInit /\ WTInit /\ PRInit

SessionIds == 1..MaxSessions
ExecIds == 1..MaxExecs

IdleClient ==
  [pc |-> "idle", op |-> "none", sid |-> 0, task |-> "none", branch |-> NoBranch,
   target |-> "none", eid |-> 0, wt |-> NoPath, cur |-> "none", chk |-> "none",
   path |-> NoPath, eff |-> {}, pre |-> {}]

NoRet ==
  [c |-> "none", op |-> "none", sid |-> 0, eid |-> 0, target |-> "none",
   task |-> "none", cur |-> "none", wt |-> NoPath, eff |-> {}, pre |-> {}, res |-> NoRes]

\* out and err are the contents of the two pipes; wrote is the history of the
\* lines the process has written, on either stream, in the order it wrote them
NoProc == [state |-> "none", out |-> << >>, n |-> 0, err |-> << >>, wrote |-> << >>]
NoTail == [started |-> FALSE, turn |-> 0, done |-> FALSE]

\* format!("task-{}", task_id) under worktree_base (session.rs:71)
WorktreePath(task) == << "worktrees", "task-", task >>

\* SessionManager::generate_branch_name: "task/<id>-<slug of the title>"
generate_branch_name(task) == << "task/", task, "-slug" >>

\* the row create_worktree_session inserts (session.rs:80-93)
NewSession(task, path, branch) ==
  [task_id |-> task, worktree_path |-> path, branch_name |-> branch,
   status |-> "pending", ended_at |-> NullTime, via |-> "create_worktree_session"]

\* The database and the repository a SessionManager is constructed over: either
\* empty, or holding the session and worktree of an earlier, completed
\* create_worktree_session("tA", None).
Earlier == {FALSE, TRUE}

SMInit ==
  /\ \E earlier \in Earlier :
       IF earlier
         THEN /\ sessions = << NewSession("tA", WorktreePath("tA"), generate_branch_name("tA")) >>
              /\ gitWorktrees = {[path |-> WorktreePath("tA"), branch |-> generate_branch_name("tA")]}
              /\ gitBranches = {<<"dev">>, generate_branch_name("tA")}
         ELSE /\ sessions = << >>
              /\ gitWorktrees = {}
              /\ gitBranches = {<<"dev">>}
  /\ execs = << >>
  /\ turns = << >>
  /\ registry = [s \in SessionIds |-> 0]
  /\ regLock = "free"
  /\ procs = [e \in ExecIds |-> NoProc]
  /\ tails = [e \in ExecIds |-> NoTail]
  /\ cl = [c \in Clients |-> IdleClient]
  /\ ret = NoRet
  /\ ncalls = 0
  /\ stopCalls = {}
  /\ startedOk = {}
  /\ clock = 0

\* a SessionManager over its database and repository, an empty MsgStore and a
\* run_session just called
Init == SMInit /\ EXInit

(* ------------------------------ helpers -------------------------------- *)
\* SessionManager::get_session: the row, if there is one
HasSession(sid) == sid \in 1..Len(sessions)

\* the ids of the execution_processes rows of a session
ExecsOf(sid) == { e \in 1..Len(execs) : execs[e].session_id = sid }

Ok == [kind |-> "Ok", from |-> "none", to |-> "none"]
Err(kind) == [kind |-> kind, from |-> "none", to |-> "none"]

\* the call of client c, whose locals are rec, returns res to its caller
Returns(c, rec, res) ==
  /\ cl' = [cl EXCEPT ![c] = IdleClient]
  /\ ret' = [c |-> c, op |-> rec.op, sid |-> rec.sid, eid |-> rec.eid,
             target |-> rec.target, task |-> rec.task, cur |-> rec.cur, wt |-> rec.wt,
             eff |-> rec.eff, pre |-> rec.pre, res |-> res]

\* the call of client c goes on with locals rec
Continues(c, rec) ==
  /\ cl' = [cl EXCEPT ![c] = rec]
  /\ ret' = NoRet

\* a client may issue a call when it has none in progress
MayCall(c) == cl[c].pc = "idle" /\ ncalls < MaxCalls

\* rows that calls in progress may still insert
PendingInserts(op) ==
  Cardinality({ d \in Clients : cl[d].op = op /\ cl[d].pc \notin {"sa_spawn", "sa_set_pid", "sa_register"} })

\* a persistence call (sqlx query) of client c fails: the `?` returns Database
DbFails(c) ==
  /\ Returns(c, cl[c], Err("Database"))

(* ---------------- SessionManager::create_worktree_session -------------- *)
\* `git worktree add -b <branch> <path>` succeeds
GitAddNewBranchOk(path, branch) ==
  /\ \A w \in gitWorktrees : w.path # path
  /\ branch \notin gitBranches

\* `git worktree add <path> <branch>` succeeds
GitAddExistingOk(path, branch) ==
  /\ \A w \in gitWorktrees : w.path # path
  /\ branch \in gitBranches
  /\ \A w \in gitWorktrees : w.branch # branch

\* a retry whose exit status is not looked at
RetryFailedIgnored(ok) == FALSE

\* create_git_worktree: `if !output_retry.status.success()` (session.rs:310)
RetryFailed(ok) == ~ok

\* call + get_task (session.rs:64)
cws_get_task(c, task, branch) ==
  /\ MayCall(c)
  /\ Len(sessions) + PendingInserts("create") < MaxSessions
  /\ ncalls' = ncalls + 1
  /\ LET call == [IdleClient EXCEPT !.op = "create", !.task = task, !.branch = branch]
     IN  \/ IF task \in DOMAIN TaskRows
                THEN Continues(c, [call EXCEPT !.pc = "cws_get_project"])
                ELSE Returns(c, call, Err("TaskNotFound"))
         \/ Returns(c, call, Err("Database"))
  /\ UNCHANGED << sessions, execs, turns, registry, regLock, procs, tails,
                  gitWorktrees, gitBranches, clock >>
  /\ UNCHANGED << stopCalls, startedOk >>
  /\ UNCHANGED exVars

\* get_project, branch name and worktree path (session.rs:65-72)
cws_get_project(c) ==
  /\ cl[c].pc = "cws_get_project"
  /\ \/ IF TaskRows[cl[c].task] \in ProjectRows
          THEN Continues(c, [cl[c] EXCEPT !.pc = "cws_git_add",
                                          !.branch = IF @ = NoBranch
                                                       THEN generate_branch_name(cl[c].task)
                                                       ELSE @,
                                          !.path = WorktreePath(cl[c].task)])
          ELSE Returns(c, cl[c], Err("ProjectNotFound"))
     \/ DbFails(c)
  /\ UNCHANGED << sessions, execs, turns, registry, regLock, procs, tails,
                  gitWorktrees, gitBranches, ncalls, clock >>
  /\ UNCHANGED << stopCalls, startedOk >>
  /\ UNCHANGED exVars

\* create_git_worktree, create_dir_all and the first attempt (session.rs:293-303);
\* `?` returns Io when the directory cannot be made or git cannot be run
cws_git_add(c) ==
  /\ cl[c].pc = "cws_git_add"
  /\ \/ IF GitAddNewBranchOk(cl[c].path, cl[c].branch)
          THEN /\ gitWorktrees' = gitWorktrees \cup {[path |-> cl[c].path, branch |-> cl[c].branch]}
               /\ gitBranches' = gitBranches \cup {cl[c].branch}
               /\ Continues(c, [cl[c] EXCEPT !.pc = "cws_insert", !.eff = @ \cup {"worktree"}])
          ELSE /\ Continues(c, [cl[c] EXCEPT !.pc = "cws_git_retry"])
               /\ UNCHANGED << gitWorktrees, gitBranches >>
     \/ /\ Returns(c, cl[c], Err("Io"))
        /\ UNCHANGED << gitWorktrees, gitBranches >>
  /\ UNCHANGED << sessions, execs, turns, registry, regLock, procs, tails, ncalls, clock >>
  /\ UNCHANGED << stopCalls, startedOk >>
  /\ UNCHANGED exVars

\* create_git_worktree, second attempt (session.rs:304-317)
cws_git_retry(c) ==
  /\ cl[c].pc = "cws_git_retry"
  /\ LET ok == GitAddExistingOk(cl[c].path, cl[c].branch)
     IN  \/ /\ IF ok
                 THEN gitWorktrees' = gitWorktrees \cup {[path |-> cl[c].path, branch |-> cl[c].branch]}
                 ELSE UNCHANGED gitWorktrees
            /\ IF RetryFailed(ok)
                 THEN Returns(c, cl[c], Err("Worktree"))
                 ELSE Continues(c, [cl[c] EXCEPT !.pc = "cws_insert",
                                                 !.eff = IF ok THEN @ \cup {"worktree"} ELSE @])
         \/ /\ Returns(c, cl[c], Err("Io"))
            /\ UNCHANGED gitWorktrees
  /\ UNCHANGED << sessions, execs, turns, registry, regLock, procs, tails,
                  gitBranches, ncalls, clock >>
  /\ UNCHANGED << stopCalls, startedOk >>
  /\ UNCHANGED exVars

\* INSERT INTO sessions and the closing get_session, which may fail after the
\* row is in (session.rs:77-95)
cws_insert(c) ==
  /\ cl[c].pc = "cws_insert"
  /\ \/ /\ sessions' = Append(sessions, NewSession(cl[c].task, cl[c].path, cl[c].branch))
        /\ \E res \in {Ok, Err("Database")} :
             Returns(c, [cl[c] EXCEPT !.sid = Len(sessions) + 1, !.eff = @ \cup {"session_row"}], res)
     \/ /\ DbFails(c)
        /\ UNCHANGED sessions
  /\ UNCHANGED << execs, turns, registry, regLock, procs, tails, gitWorktrees, gitBranches,
                  ncalls, clock >>
  /\ UNCHANGED << stopCalls, startedOk >>
  /\ UNCHANGED exVars

(* ----------------------- db.rs Session::create ------------------------- *)
\* Session::create with worktree_path = None and status = None (db.rs:379-396)
db_session_create(c, task) ==
  /\ MayCall(c)
  /\ Len(sessions) + PendingInserts("create") < MaxSessions
  /\ ncalls' = ncalls + 1
  /\ sessions' = Append(sessions,
                   [task_id |-> task, worktree_path |-> NoPath, branch_name |-> NoBranch,
                    status |-> "pending", ended_at |-> NullTime, via |-> "Session::create"])
  /\ Returns(c, [IdleClient EXCEPT !.op = "db_create", !.task = task, !.sid = Len(sessions) + 1,
                                   !.eff = {"session_row"}], Ok)
  /\ UNCHANGED << execs, turns, registry, regLock, procs, tails, gitWorktrees, gitBranches,
                  clock, stopCalls, startedOk >>
  /\ UNCHANGED exVars

(* ------------------------------ chrono_now ----------------------------- *)
\* the times chrono_now() may return: the clock never goes back
Nows == clock..MaxTime

(* ------------- SessionManager::transition_session_status --------------- *)
\* an error value with the two statuses swapped
InvalidTransitionSwapped(current, new) == [kind |-> "InvalidTransition", from |-> new, to |-> current]

\* SessionError::InvalidTransition { from: current_status, to: new_status } (session.rs:192-195)
InvalidTransition(current, new) == [kind |-> "InvalidTransition", from |-> current, to |-> new]

\* the ended_at written with a status (session.rs:199-204)
EndedAt(new, old, now) == IF new \in Terminal THEN now ELSE old

\* get_session and the can_transition_to check (session.rs:188-196)
tr_check(c) ==
  /\ cl[c].pc = "tr_check"
  /\ \/ /\ ~HasSession(cl[c].sid)
        /\ Returns(c, cl[c], Err("SessionNotFound"))
     \/ /\ HasSession(cl[c].sid)
        /\ LET current == sessions[cl[c].sid].status
           IN  IF can_transition_to(current, cl[c].target)
                 THEN Continues(c, [cl[c] EXCEPT !.pc = "tr_update", !.chk = current])
                 ELSE Returns(c, cl[c], InvalidTransition(current, cl[c].target))
     \/ DbFails(c)
  /\ UNCHANGED << sessions, execs, turns, registry, regLock, procs, tails,
                  gitWorktrees, gitBranches, ncalls, clock >>
  /\ UNCHANGED << stopCalls, startedOk >>
  /\ UNCHANGED exVars

\* UPDATE sessions SET status [, ended_at] and the closing get_session, which may
\* fail after the row is written (session.rs:198-221); start_agent goes on to its
\* INSERT, the other callers return
tr_update(c) ==
  /\ cl[c].pc = "tr_update"
  /\ \/ \E now \in Nows :
          /\ clock' = now
          /\ sessions' = [sessions EXCEPT ![cl[c].sid].status = cl[c].target,
                                          ![cl[c].sid].ended_at = EndedAt(cl[c].target, @, now)]
          /\ \/ IF cl[c].op = "start"
                  THEN Continues(c, [cl[c] EXCEPT !.pc = "sa_insert_exec", !.eff = @ \cup {"session_row"}])
                  ELSE Returns(c, [cl[c] EXCEPT !.eff = @ \cup {"session_row"}], Ok)
             \/ Returns(c, [cl[c] EXCEPT !.eff = @ \cup {"session_row"}], Err("Database"))
     \/ /\ DbFails(c)
        /\ UNCHANGED << sessions, clock >>
  /\ UNCHANGED << execs, turns, registry, regLock, procs, tails, gitWorktrees, gitBranches, ncalls >>
  /\ UNCHANGED << stopCalls, startedOk >>
  /\ UNCHANGED exVars

\* a direct call of transition_session_status (session.rs:183-187)
transition_session_status(c, sid, new) ==
  /\ MayCall(c)
  /\ ncalls' = ncalls + 1
  /\ Continues(c, [IdleClient EXCEPT !.op = "transition", !.pc = "tr_check",
                                     !.sid = sid, !.target = new])
  /\ UNCHANGED << sessions, execs, turns, registry, regLock, procs, tails,
                  gitWorktrees, gitBranches, clock >>
  /\ UNCHANGED << stopCalls, startedOk >>
  /\ UNCHANGED exVars

(* ----------------------- SessionManager::start_agent ------------------- *)
\* the agent subprocess right after Command::spawn, stdout and stderr piped
\* (session.rs:333-334)
Spawned == [state |-> "alive", out |-> << >>, n |-> 0, err |-> << >>, wrote |-> << >>]

\* call + get_session (session.rs:103)
sa_get_session(c, sid) ==
  /\ MayCall(c)
  /\ Len(execs) + PendingInserts("start") < MaxExecs
  /\ ncalls' = ncalls + 1
  /\ LET call == [IdleClient EXCEPT !.op = "start", !.sid = sid, !.target = "running"]
     IN  \/ IF HasSession(sid)
                THEN Continues(c, [call EXCEPT !.pc = "tr_check",
                                               !.wt = sessions[sid].worktree_path,
                                               !.cur = sessions[sid].status,
                                               !.pre = ExecsOf(sid)])
                ELSE Returns(c, call, Err("SessionNotFound"))
         \/ Returns(c, call, Err("Database"))
  /\ UNCHANGED << sessions, execs, turns, registry, regLock, procs, tails,
                  gitWorktrees, gitBranches, clock >>
  /\ UNCHANGED << stopCalls, startedOk >>
  /\ UNCHANGED exVars

\* INSERT INTO execution_processes (session.rs:108-123)
sa_insert_exec(c) ==
  /\ cl[c].pc = "sa_insert_exec"
  /\ \/ /\ execs' = Append(execs, [session_id |-> cl[c].sid, status |-> "running",
                                   pid |-> 0, ended_at |-> NullTime])
        /\ Continues(c, [cl[c] EXCEPT !.pc = "sa_spawn", !.eid = Len(execs) + 1,
                                      !.eff = @ \cup {"exec_row"}])
     \/ /\ DbFails(c)
        /\ UNCHANGED execs
  /\ UNCHANGED << sessions, turns, registry, regLock, procs, tails, gitWorktrees, gitBranches,
                  ncalls, clock >>
  /\ UNCHANGED << stopCalls, startedOk >>
  /\ UNCHANGED exVars

\* the worktree_path check and spawn_agent_process (session.rs:125-131, 322-376);
\* "NoWorktreePath" is SessionError::Worktree("Session has no worktree path"),
\* "Agent" is the map_err of Command::spawn
sa_spawn(c) ==
  /\ cl[c].pc = "sa_spawn"
  /\ IF cl[c].wt = NoPath
       THEN /\ Returns(c, cl[c], Err("NoWorktreePath"))
            /\ UNCHANGED << procs, tails >>
       ELSE \/ /\ procs' = [procs EXCEPT ![cl[c].eid] = Spawned]
               /\ tails' = [tails EXCEPT ![cl[c].eid].started = TRUE]
               /\ Continues(c, [cl[c] EXCEPT !.pc = "sa_set_pid", !.eff = @ \cup {"spawn"}])
            \/ /\ Returns(c, cl[c], Err("Agent"))
               /\ UNCHANGED << procs, tails >>
  /\ UNCHANGED << sessions, execs, turns, registry, regLock, gitWorktrees, gitBranches,
                  ncalls, clock >>
  /\ UNCHANGED << stopCalls, startedOk >>
  /\ UNCHANGED exVars

\* UPDATE execution_processes SET pid (session.rs:133-141)
sa_set_pid(c) ==
  /\ cl[c].pc = "sa_set_pid"
  /\ \/ /\ execs' = [execs EXCEPT ![cl[c].eid].pid = cl[c].eid]
        /\ Continues(c, [cl[c] EXCEPT !.pc = "sa_register"])
     \/ /\ DbFails(c)
        /\ UNCHANGED execs
  /\ UNCHANGED << sessions, turns, registry, regLock, procs, tails, gitWorktrees, gitBranches,
                  ncalls, clock >>
  /\ UNCHANGED << stopCalls, startedOk >>
  /\ UNCHANGED exVars

\* running_processes.write().insert and the closing get_execution, which changes
\* nothing and may fail (session.rs:143-154)
sa_register(c) ==
  /\ cl[c].pc = "sa_register"
  /\ regLock = "free"
  /\ registry' = [registry EXCEPT ![cl[c].sid] = cl[c].eid]
  /\ \/ /\ Returns(c, [cl[c] EXCEPT !.eff = @ \cup {"registry"}], Ok)
        /\ startedOk' = startedOk \cup {cl[c].eid}
     \/ /\ Returns(c, [cl[c] EXCEPT !.eff = @ \cup {"registry"}], Err("Database"))
        /\ UNCHANGED startedOk
  /\ UNCHANGED << sessions, execs, turns, regLock, procs, tails, gitWorktrees, gitBranches,
                  ncalls, clock, stopCalls >>
  /\ UNCHANGED exVars

(* ---------------------- SessionManager::stop_session ------------------- *)
\* `if current_status == SessionStatus::Running` (session.rs:161)
StopsWhen(status) == status = "running"

\* call + get_session + the Running test (session.rs:158-161)
ss_get_session(c, sid) ==
  /\ MayCall(c)
  /\ ncalls' = ncalls + 1
  /\ LET call == [IdleClient EXCEPT !.op = "stop", !.sid = sid, !.target = "cancelled"]
     IN  \/ IF HasSession(sid)
                THEN IF StopsWhen(sessions[sid].status)
                       THEN Continues(c, [call EXCEPT !.pc = "ss_remove", !.cur = sessions[sid].status])
                       ELSE Returns(c, [call EXCEPT !.cur = sessions[sid].status], Ok)
                ELSE Returns(c, call, Err("SessionNotFound"))
         \/ Returns(c, call, Err("Database"))
  /\ UNCHANGED << sessions, execs, turns, registry, regLock, procs, tails,
                  gitWorktrees, gitBranches, clock >>
  /\ stopCalls' = stopCalls \cup {sid}
  /\ UNCHANGED startedOk
  /\ UNCHANGED exVars

\* running_processes.write().await.remove(session_id) (session.rs:162);
\* the write guard lives until the end of the `if let` statement
ss_remove(c) ==
  /\ cl[c].pc = "ss_remove"
  /\ regLock = "free"
  /\ IF registry[cl[c].sid] # 0
       THEN /\ registry' = [registry EXCEPT ![cl[c].sid] = 0]
            /\ regLock' = c
            /\ Continues(c, [cl[c] EXCEPT !.pc = "ss_kill", !.eid = registry[cl[c].sid],
                                          !.eff = @ \cup {"registry"}])
       ELSE /\ Continues(c, [cl[c] EXCEPT !.pc = "tr_check"])
            /\ UNCHANGED << registry, regLock >>
  /\ UNCHANGED << sessions, execs, turns, procs, tails, gitWorktrees, gitBranches,
                  ncalls, clock >>
  /\ UNCHANGED << stopCalls, startedOk >>
  /\ UNCHANGED exVars

\* process.child.kill().await, result ignored (session.rs:163)
ss_kill(c) ==
  /\ cl[c].pc = "ss_kill"
  /\ procs' = [procs EXCEPT ![cl[c].eid].state = IF @ = "alive" THEN "killed" ELSE @]
  /\ Continues(c, [cl[c] EXCEPT !.pc = "ss_mark_exec", !.eff = @ \cup {"kill"}])
  /\ UNCHANGED << sessions, execs, turns, registry, regLock, tails, gitWorktrees, gitBranches,
                  ncalls, clock >>
  /\ UNCHANGED << stopCalls, startedOk >>
  /\ UNCHANGED exVars

\* UPDATE execution_processes SET status = cancelled, ended_at (session.rs:165-174);
\* the write guard is dropped when the block is left, by `?` too
ss_mark_exec(c) ==
  /\ cl[c].pc = "ss_mark_exec"
  /\ regLock' = "free"
  /\ \/ \E now \in Nows :
          /\ clock' = now
          /\ execs' = [execs EXCEPT ![cl[c].eid].status = "cancelled",
                                    ![cl[c].eid].ended_at = now]
          /\ Continues(c, [cl[c] EXCEPT !.pc = "tr_check", !.eff = @ \cup {"exec_row"}])
     \/ /\ DbFails(c)
        /\ UNCHANGED << execs, clock >>
  /\ UNCHANGED << sessions, turns, registry, procs, tails, gitWorktrees, gitBranches, ncalls >>
  /\ UNCHANGED << stopCalls, startedOk >>
  /\ UNCHANGED exVars

(* ------- SessionManager::mark_execution_completed / _failed ------------ *)
\* UPDATE execution_processes SET status = ?, ended_at = ? WHERE id = ?
MarkExecution(c, eid, status, op) ==
  /\ MayCall(c)
  /\ ncalls' = ncalls + 1
  /\ LET call == [IdleClient EXCEPT !.op = op, !.eid = eid]
         hit == eid \in 1..Len(execs)
     IN  \/ \E now \in Nows :
              /\ clock' = now
              /\ execs' = IF hit
                            THEN [execs EXCEPT ![eid].status = status, ![eid].ended_at = now]
                            ELSE execs
              /\ Returns(c, [call EXCEPT !.eff = IF hit THEN {"exec_row"} ELSE {}], Ok)
         \/ /\ Returns(c, call, Err("Database"))
            /\ UNCHANGED << execs, clock >>
  /\ UNCHANGED << sessions, turns, registry, regLock, procs, tails, gitWorktrees, gitBranches,
                  stopCalls, startedOk >>
  /\ UNCHANGED exVars

\* session.rs:241-250
mark_execution_completed(c, eid) == MarkExecution(c, eid, "completed", "mark_completed")

\* session.rs:252-261
mark_execution_failed(c, eid) == MarkExecution(c, eid, "failed", "mark_failed")

(* ------------------ the agent subprocess and its tail ------------------ *)
\* the agent writes its next line to its stdout pipe
proc_emit(e) ==
  /\ procs[e].state = "alive"
  /\ procs[e].n < MaxLines
  /\ procs[e].n < Len(Script)
  /\ procs' = [procs EXCEPT ![e].out = Append(@, Script[procs[e].n + 1]), ![e].n = @ + 1,
                             ![e].wrote = Append(@, Script[procs[e].n + 1])]
  /\ UNCHANGED << sessions, execs, turns, registry, regLock, tails, gitWorktrees, gitBranches,
                  cl, ncalls, clock >>
  /\ ret' = NoRet
  /\ UNCHANGED << stopCalls, startedOk >>
  /\ UNCHANGED exVars

\* the lines the agent writes to its stderr
ErrScript == << "x", "y", "z" >>

\* the agent writes its next line to its stderr pipe, which has no reader
\* (session.rs:334: piped; 347: only child.stdout is taken)
proc_emit_err(e) ==
  /\ procs[e].state = "alive"
  /\ Len(procs[e].err) < MaxLines
  /\ Len(procs[e].err) < Len(ErrScript)
  /\ procs' = [procs EXCEPT ![e].err = Append(@, ErrScript[Len(procs[e].err) + 1]),
                             ![e].wrote = Append(@, ErrScript[Len(procs[e].err) + 1])]
  /\ UNCHANGED << sessions, execs, turns, registry, regLock, tails, gitWorktrees, gitBranches,
                  cl, ncalls, clock >>
  /\ ret' = NoRet
  /\ UNCHANGED << stopCalls, startedOk >>
  /\ UNCHANGED exVars

\* the agent exits by itself
proc_exit(e) ==
  /\ procs[e].state = "alive"
  /\ procs' = [procs EXCEPT ![e].state = "exited"]
  /\ UNCHANGED << sessions, execs, turns, registry, regLock, tails, gitWorktrees, gitBranches,
                  cl, ncalls, clock >>
  /\ ret' = NoRet
  /\ UNCHANGED << stopCalls, startedOk >>
  /\ UNCHANGED exVars

\* the tail task ends at the end of the stream and touches no row (session.rs:353, 371-372)
AfterEof(e) == execs

\* one turn of the `while let Ok(Some(line))` loop: INSERT INTO coding_agent_turns,
\* result ignored (session.rs:353-371)
tail_next_line(e) ==
  /\ tails[e].started /\ ~tails[e].done
  /\ procs[e].out # << >>
  /\ procs' = [procs EXCEPT ![e].out = Tail(@)]
  /\ tails' = [tails EXCEPT ![e].turn = @ + 1]
  /\ \/ /\ turns' = Append(turns, [execution_id |-> e, turn_number |-> tails[e].turn + 1,
                                   output |-> Head(procs[e].out)])
     \/ UNCHANGED turns
  /\ UNCHANGED << sessions, execs, registry, regLock, gitWorktrees, gitBranches, cl,
                  ncalls, clock >>
  /\ ret' = NoRet
  /\ UNCHANGED << stopCalls, startedOk >>
  /\ UNCHANGED exVars

\* lines.next_line() returns Ok(None): the pipe is closed and drained, the task ends
tail_eof(e) ==
  /\ tails[e].started /\ ~tails[e].done
  /\ procs[e].out = << >>
  /\ procs[e].state \in {"exited", "killed"}
  /\ tails' = [tails EXCEPT ![e].done = TRUE]
  /\ execs' = AfterEof(e)
  /\ UNCHANGED << sessions, turns, registry, regLock, procs, gitWorktrees, gitBranches,
                  cl, ncalls, clock >>
  /\ ret' = NoRet
  /\ UNCHANGED << stopCalls, startedOk >>
  /\ UNCHANGED exVars

(* --------------------------- specification ----------------------------- *)
ClientNext(c) ==
  \/ \E task \in TaskIds, branch \in BranchArgs : cws_get_task(c, task, branch)
  \/ cws_get_project(c)
  \/ cws_git_add(c)
  \/ cws_git_retry(c)
  \/ cws_insert(c)
  \/ \E task \in {"tA"} : db_session_create(c, task)
  \/ \E sid \in SessionIds, new \in Statuses : transition_session_status(c, sid, new)
  \/ tr_check(c)
  \/ tr_update(c)
  \/ \E sid \in SessionIds : sa_get_session(c, sid)
  \/ sa_insert_exec(c)
  \/ sa_spawn(c)
  \/ sa_set_pid(c)
  \/ sa_register(c)
  \/ \E sid \in SessionIds : ss_get_session(c, sid)
  \/ ss_remove(c)
  \/ ss_kill(c)
  \/ ss_mark_exec(c)
  \/ \E eid \in ExecIds : mark_execution_completed(c, eid)
  \/ \E eid \in ExecIds : mark_execution_failed(c, eid)

ProcNext ==
  \E e \in ExecIds :
    \/ proc_emit(e)
    \/ proc_exit(e)
    \/ tail_next_line(e)
    \/ tail_eof(e)

\* calls of all clients interleave at their awaits
SMNext == (\E c \in Clients : ClientNext(c)) \/ ProcNext

Spec == Init /\ [][SMNext]_vars

\* the calls of start_agent and stop_session alone, of all clients, interleaved
StartStopNext ==
  \/ \E c \in Clients :
       \/ \E sid \in SessionIds : sa_get_session(c, sid)
       \/ \E sid \in SessionIds : ss_get_session(c, sid)
       \/ tr_check(c)
       \/ tr_update(c)
       \/ sa_insert_exec(c)
       \/ sa_spawn(c)
       \/ sa_set_pid(c)
       \/ sa_register(c)
       \/ ss_remove(c)
       \/ ss_kill(c)
       \/ ss_mark_exec(c)
  \/ ProcNext

StartStopSpec == Init /\ [][StartStopNext]_vars

\* the calls that change a session's status (start_agent, stop_session and
\* transition_session_status) of all clients, interleaved
StatusNext ==
  \/ \E c \in Clients, sid \in SessionIds, new \in Statuses :
       transition_session_status(c, sid, new)
  \/ StartStopNext

StatusSpec == Init /\ [][StatusNext]_vars

\* the calls of transition_session_status alone, of all clients, interleaved
TransitionNext ==
  \E c \in Clients :
    \/ \E sid \in SessionIds, new \in Statuses : transition_session_status(c, sid, new)
    \/ tr_check(c)
    \/ tr_update(c)

TransitionSpec == Init /\ [][TransitionNext]_vars

\* the calls of create_worktree_session alone, of all clients, interleaved
CreateNext ==
  \E c \in Clients :
    \/ \E task \in TaskIds, branch \in BranchArgs : cws_get_task(c, task, branch)
    \/ cws_get_project(c)
    \/ cws_git_add(c)
    \/ cws_git_retry(c)
    \/ cws_insert(c)

CreateSpec == Init /\ [][CreateNext]_vars

\* one caller issuing the calls that change a session's status
SeqStatusNext ==
  \/ \E sid \in SessionIds, new \in Statuses : transition_session_status("c1", sid, new)
  \/ \E sid \in SessionIds : sa_get_session("c1", sid)
  \/ \E sid \in SessionIds : ss_get_session("c1", sid)
  \/ tr_check("c1")
  \/ tr_update("c1")
  \/ sa_insert_exec("c1")
  \/ sa_spawn("c1")
  \/ sa_set_pid("c1")
  \/ sa_register("c1")
  \/ ss_remove("c1")
  \/ ss_kill("c1")
  \/ ss_mark_exec("c1")
  \/ ProcNext

SeqStatusSpec == Init /\ [][SeqStatusNext]_vars

\* one caller: each call returns before the next one is issued
SeqNext == ClientNext("c1") \/ ProcNext

SeqSpec == Init /\ [][SeqNext]_vars

\* one caller starting agents, and the agents writing to both of their streams
OutputNext ==
  \/ \E sid \in SessionIds : sa_get_session("c1", sid)
  \/ tr_check("c1")
  \/ tr_update("c1")
  \/ sa_insert_exec("c1")
  \/ sa_spawn("c1")
  \/ sa_set_pid("c1")
  \/ sa_register("c1")
  \/ ProcNext
  \/ \E e \in ExecIds : proc_emit_err(e)

OutputSpec == Init /\ [][OutputNext]_vars

(* ======================= claims: SessionManager ======================== *)
\* a call returned in the last step
Returned(op) == ret.op = op
ReturnedOk(op) == ret.op = op /\ ret.res.kind = "Ok"

\* the latest execution_processes row of a session (0 if it has none)
LatestExec(sid) ==
  IF ExecsOf(sid) = {} THEN 0
  ELSE CHOOSE e \in ExecsOf(sid) : \A f \in ExecsOf(sid) : f <= e

\* the outputs of the coding_agent_turns rows of an execution, in insert order
LogOf(e) ==
  LET F[i \in 0..Len(turns)] ==
        IF i = 0 THEN << >>
        ELSE IF turns[i].execution_id = e THEN Append(F[i - 1], turns[i].output)
        ELSE F[i - 1]
  IN  F[Len(turns)]

\* C1: can_transition_to(from, to) is true for exactly the five allowed edges and
\* false for the other 20 ordered pairs of statuses; so every request that passes
\* the check is along an allowed edge and every InvalidTransition is for a pair
\* that is not one.
C1_CanTransitionExactlyAllowedEdges ==
  /\ \A from \in Statuses, to \in Statuses :
       can_transition_to(from, to) <=> << from, to >> \in AllowedEdges
  /\ \A c \in Clients :
       cl[c].pc = "tr_update" => << cl[c].chk, cl[c].target >> \in AllowedEdges
  /\ ret.res.kind = "InvalidTransition" => << ret.res.from, ret.res.to >> \notin AllowedEdges

\* C1 witness: a request to leave a terminal status was refused
C1_Witness ==
  /\ ret.op = "transition"
  /\ ret.res.kind = "InvalidTransition"
  /\ ret.res.from \in Terminal

\* C2: every change of a persisted Session.status goes along an allowed edge
\* (so a terminal status never changes again), under every interleaving of calls.
C2_StatusChangesAlongAllowedEdges ==
  [][\A s \in 1..Len(sessions) :
       sessions'[s].status # sessions[s].status
         => << sessions[s].status, sessions'[s].status >> \in AllowedEdges]_smVars

C4_StartOnNonPendingFails ==
  [][\A c \in Clients :
       (cl[c].op = "start" /\ cl[c].cur # "pending" /\ cl'[c] # cl[c])
         => /\ UNCHANGED << sessions, execs, registry, procs, tails >>
            /\ ret'.c = c /\ ret'.op = "start"
            /\ ret'.res.kind \in {"InvalidTransition", "Database"}]_smVars

\* C4 witness: start_agent on a session that was not Pending returned InvalidTransition
C4_Witness ==
  /\ ret.op = "start"
  /\ ret.cur \in Statuses \ {"pending"}
  /\ ret.res.kind = "InvalidTransition"

\* C5: when start_agent on a Pending session returns Ok, the session is Running,
\* exactly one new execution_processes row exists for it, with status Running,
\* and the registry maps the session id to the handle of that execution's process.
C5_StartAgentPostcondition ==
  (ReturnedOk("start") /\ ret.cur = "pending")
    => /\ sessions[ret.sid].status = "running"
       /\ ExecsOf(ret.sid) \ ret.pre = {ret.eid}
       /\ execs[ret.eid].status = "running"
       /\ registry[ret.sid] = ret.eid
       /\ procs[ret.eid].state # "none"

\* C6: when stop_session returns Ok for a session that was Running, the registry
\* has no entry for the session, no process of the session is alive, the latest
\* execution_processes row of the session is Cancelled and the session is
\* Cancelled, whether or not a handle was registered when it was called.
C6_StopSessionPostcondition ==
  (ReturnedOk("stop") /\ ret.cur = "running")
    => /\ registry[ret.sid] = 0
       /\ \A e \in ExecsOf(ret.sid) : procs[e].state # "alive"
       /\ LatestExec(ret.sid) # 0 => execs[LatestExec(ret.sid)].status = "cancelled"
       /\ sessions[ret.sid].status = "cancelled"

\* C7: once start_agent has returned Ok for an execution, its agent has written
\* one stdout line and exited and its tail has reached the end of the stream,
\* with stop_session never called for the session, the execution is Completed
\* and its log holds exactly that line.
C7_OneLineThenExitCompletes ==
  \A e \in 1..Len(execs) :
    ( /\ e \in startedOk
      /\ procs[e].state = "exited" /\ procs[e].n = 1
      /\ tails[e].done
      /\ execs[e].session_id \notin stopCalls )
    => /\ execs[e].status = "completed"
       /\ LogOf(e) = << Script[1] >>

\* C8: when start_agent returns an error after it has moved the session to
\* Running, the session, and the execution_processes row if one was created,
\* are in a terminal status.
C8_FailedStartLeavesTerminalRecords ==
  (Returned("start") /\ ret.res.kind # "Ok" /\ "session_row" \in ret.eff)
    => /\ sessions[ret.sid].status \in Terminal
       /\ ret.eid # 0 => execs[ret.eid].status \in Terminal

\* C9: a call that returns a lookup or validation error has had no side effect:
\* create_worktree_session with TaskNotFound or ProjectNotFound, start_agent or
\* stop_session with SessionNotFound, InvalidTransition or "Session has no
\* worktree path".
C9_ValidationErrorsBeforeSideEffects ==
  /\ (Returned("create") /\ ret.res.kind \in {"TaskNotFound", "ProjectNotFound"})
       => ret.eff = {}
  /\ (ret.op \in {"start", "stop"}
      /\ ret.res.kind \in {"SessionNotFound", "InvalidTransition", "NoWorktreePath"})
       => ret.eff = {}

\* C10: no two sessions persisted by create_worktree_session have the same
\* worktree_path.
C10_WorktreePathUnique ==
  \A s \in 1..Len(sessions), t \in 1..Len(sessions) :
    ( /\ s # t
      /\ sessions[s].via = "create_worktree_session"
      /\ sessions[t].via = "create_worktree_session" )
    => sessions[s].worktree_path # sessions[t].worktree_path

\* C10 witness: a second create_worktree_session for a task that already has a
\* session, hence the same worktree path, was refused by git
C10_Witness ==
  /\ ret.op = "create" /\ ret.res.kind = "Worktree"
  /\ \E s \in 1..Len(sessions) :
       /\ sessions[s].task_id = ret.task
       /\ sessions[s].via = "create_worktree_session"
       /\ sessions[s].worktree_path = WorktreePath(ret.task)

\* C27: the running_processes lock is not held while its holder is suspended at
\* an await: every state of the model has each call at an await, so the lock is
\* free in every state.
C27_RegistryLockNotHeldAcrossAwait == regLock = "free"

\* no call is in progress
Quiet == \A c \in Clients : cl[c].pc = "idle"

\* C34: once every call has returned, a session whose status is terminal has no
\* entry in the registry and no agent process that is alive, whatever way the
\* steps of the start_agent and stop_session calls interleaved.
C34_NoProcessOutlivesCancellation ==
  Quiet =>
    \A s \in 1..Len(sessions) :
      sessions[s].status \in Terminal
        => /\ registry[s] = 0
           /\ \A e \in ExecsOf(s) : procs[e].state # "alive"

\* C35: of the start_agent calls on one session at most one returns Ok, and the
\* session gets at most one execution_processes row and one agent process,
\* whatever way the steps of the calls interleaved (a session is Pending only
\* until its first start).
C35_AtMostOneStartWins ==
  \A s \in 1..Len(sessions) :
    /\ Cardinality(startedOk \cap ExecsOf(s)) <= 1
    /\ Cardinality(ExecsOf(s)) <= 1
    /\ Cardinality({ e \in ExecsOf(s) : procs[e].state # "none" }) <= 1

\* C36: an execution_processes row whose status is Completed, Failed or
\* Cancelled keeps its status and its ended_at in every later step, whichever of
\* mark_execution_completed, mark_execution_failed and stop_session is called.
C36_TerminalExecutionStatusStable ==
  [][\A e \in 1..Len(execs) :
       execs[e].status \in Terminal
         => /\ execs'[e].status = execs[e].status
            /\ execs'[e].ended_at = execs[e].ended_at]_smVars

\* the lines held by the MsgStore, in store order
StoredLines == [i \in 1..Len(messages) |-> messages[i].line.text]

\* C11: for an execution start_agent returned Ok for, once the agent has exited
\* and the tail task has reached the end of the stream, every line the agent
\* wrote to stdout or stderr is a log entry of the execution and a message of
\* the MsgStore, in the order the lines were written.
C11_EveryOutputLineLoggedAndPushed ==
  \A e \in 1..Len(execs) :
    ( /\ e \in startedOk
      /\ procs[e].state = "exited"
      /\ tails[e].done )
    => /\ LogOf(e) = procs[e].wrote
       /\ StoredLines = procs[e].wrote

(* ============================ executor::MsgStore ======================= *)
\* a push that puts the message in front of the stored ones
VecPushFront(v, msg) == << msg >> \o v

\* messages.push(msg.clone()) (msg_store.rs:44)
VecPush(v, msg) == Append(v, msg)

\* a send that loses the message
NotifySendLost(ch, msg) == ch

\* broadcast::Sender::send with a receiver present: the value goes into the
\* slot of the tail position, overwriting what the slot held (msg_store.rs:46)
NotifySend(ch, msg) ==
  [pos |-> ch.pos + 1,
   buf |-> [ch.buf EXCEPT ![ch.pos % ChannelCapacity] = [pos |-> ch.pos, val |-> msg]]]

\* the slot a receiver looks at
SlotOf(r) == chan.buf[r.next % ChannelCapacity]

\* Receiver::recv would wait: the receiver has seen every value sent
RxEmpty(r) == r.next = chan.pos

\* Receiver::recv returns Err(Lagged): the slot of the receiver's position was overwritten
RxLagged(r) == ~RxEmpty(r) /\ SlotOf(r).pos # r.next

\* the number of push calls whose send is still to come
InFlight == Cardinality({ p \in ConcurrentProducers : pushing[p] # NoMsg })

\* MsgStore::push, first statement: the message is stored under the write lock
\* (msg_store.rs:43-45)
push_store(p, msg) ==
  /\ pushing[p] = NoMsg
  /\ Len(pushed) < MaxPush
  /\ messages' = VecPush(messages, msg)
  /\ pushing' = [pushing EXCEPT ![p] = msg]
  /\ pushed' = Append(pushed, msg)
  /\ UNCHANGED << chan, rx, lastAll, nz >>
  /\ UNCHANGED << smVars, rsVars, bkVars, restVars >>

\* MsgStore::push, second statement: `let _ = self.notify.send(msg)`; send
\* returns Err and keeps nothing when there is no receiver (msg_store.rs:46)
push_send(p) ==
  /\ pushing[p] # NoMsg
  /\ chan' = IF \E s \in Subscribers : rx[s].open
               THEN NotifySend(chan, pushing[p])
               ELSE chan
  /\ pushing' = [pushing EXCEPT ![p] = NoMsg]
  /\ UNCHANGED << messages, rx, pushed, lastAll, nz >>
  /\ UNCHANGED << smVars, rsVars, bkVars, restVars >>

\* MsgStore::get_all (msg_store.rs:50-52): a clone of the vector
get_all(s) ==
  /\ lastAll' = [by |-> s, val |-> messages]
  /\ UNCHANGED << messages, chan, rx, pushing, pushed, nz >>
  /\ UNCHANGED << smVars, rsVars, bkVars, restVars >>

\* a receiver created now: it starts at the tail of the channel
NewRx == [open |-> TRUE, next |-> chan.pos, from |-> Len(pushed) - InFlight,
          got |-> << >>, lagged |-> FALSE]

\* MsgStore::subscribe (msg_store.rs:55-57)
subscribe(s) ==
  /\ ~rx[s].open
  /\ rx' = [rx EXCEPT ![s] = NewRx]
  /\ UNCHANGED << messages, chan, pushing, pushed, lastAll, nz >>
  /\ UNCHANGED << smVars, rsVars, bkVars, restVars >>

\* the receiver after recv returned Err(Lagged): it is moved to the oldest
\* value the channel still holds
AfterLagged(r) == [r EXCEPT !.next = chan.pos - ChannelCapacity, !.lagged = TRUE]

\* the receiver after recv returned Ok(value)
AfterRecv(r) == [r EXCEPT !.next = @ + 1, !.got = Append(@, SlotOf(r).val)]

\* rx.recv().await of a subscriber returns
recv(s) ==
  /\ rx[s].open
  /\ ~RxEmpty(rx[s])
  /\ rx' = [rx EXCEPT ![s] = IF RxLagged(rx[s]) THEN AfterLagged(rx[s]) ELSE AfterRecv(rx[s])]
  /\ UNCHANGED << messages, chan, pushing, pushed, lastAll, nz >>
  /\ UNCHANGED << smVars, rsVars, bkVars, restVars >>

\* MsgStore::clear (msg_store.rs:60-64)
clear ==
  /\ messages # << >>
  /\ messages' = << >>
  /\ UNCHANGED << chan, rx, pushing, pushed, lastAll, nz >>
  /\ UNCHANGED << smVars, rsVars, bkVars, restVars >>

\* the subscribers that are not the normalize_logs task
Observers == Subscribers \ {"normalizer"}

\* push, get_all, subscribe and the receivers
PushNext ==
  \/ \E p \in Producers, msg \in LogMsgs : push_store(p, msg)
  \/ \E p \in Producers : push_send(p)
  \/ \E s \in Observers : get_all(s)
  \/ \E s \in Observers : subscribe(s)
  \/ \E s \in Observers : recv(s)

PushSpec == Init /\ [][PushNext]_vars

\* every public operation of the store
StoreNext == PushNext \/ clear

StoreSpec == Init /\ [][StoreNext]_vars

\* two tasks pushing at the same time, with get_all, subscribe and the receivers
ConcurrentPushNext ==
  \/ \E p \in ConcurrentProducers, msg \in LogMsgs : push_store(p, msg)
  \/ \E p \in ConcurrentProducers : push_send(p)
  \/ \E s \in Observers : get_all(s)
  \/ \E s \in Observers : subscribe(s)
  \/ \E s \in Observers : recv(s)

ConcurrentPushSpec == Init /\ [][ConcurrentPushNext]_vars

(* ========================== claims: MsgStore =========================== *)
IsPrefix(a, b) == Len(a) <= Len(b) /\ a = SubSeq(b, 1, Len(a))

\* the messages of the push calls a receiver was created before the send of
PushedSince(r) == SubSeq(pushed, r.from + 1, Len(pushed))

\* C12: with push, get_all and subscribe as the only operations, every get_all
\* returns exactly the messages push was called with so far, in call order,
\* whoever calls it: a subscriber from before the pushes or one from after them.
C12_GetAllReturnsPushHistory ==
  [][lastAll' # lastAll => lastAll'.val = pushed']_vars

\* a subscriber created after two different pushes has got both from get_all,
\* while another subscriber exists from before the pushes
C12_Witness ==
  /\ lastAll.by = "late"
  /\ rx["late"].open /\ rx["late"].from = 2
  /\ rx["early"].open /\ rx["early"].from = 0
  /\ Len(lastAll.val) = 2 /\ lastAll.val[1] # lastAll.val[2]

\* C13: a receiver that never returned Lagged has returned a prefix of the
\* messages pushed since it was created, in push order, and all of them once it
\* has nothing left to receive and no push is in progress.
C13_SubscriberReceivesPushesInOrder ==
  \A s \in Observers :
    (rx[s].open /\ ~rx[s].lagged)
    => /\ IsPrefix(rx[s].got, PushedSince(rx[s]))
       /\ (RxEmpty(rx[s]) /\ InFlight = 0) => rx[s].got = PushedSince(rx[s])

\* a receiver created before the first push has received more messages than
\* the channel holds, all that were pushed, without ever lagging
C13_Witness ==
  /\ rx["early"].open /\ ~rx["early"].lagged /\ rx["early"].from = 0
  /\ Len(rx["early"].got) > ChannelCapacity
  /\ rx["early"].got = pushed
  /\ \E i, j \in 1..Len(pushed) : pushed[i] # pushed[j]

\* C14: over push, get_all, subscribe and clear, the result of a get_all is a
\* prefix of the result of the next get_all (and so of every later one).
C14_GetAllGrowsByAppending ==
  [][(lastAll' # lastAll /\ lastAll.by # "none") => IsPrefix(lastAll.val, lastAll'.val)]_vars

\* C37: with two tasks pushing at the same time, a receiver that exists from
\* before the first push and never returned Lagged has returned the messages
\* in the order get_all returns them: what it returned is a prefix of the
\* stored messages.
C37_ReceiveOrderIsStoreOrder ==
  \A s \in Observers :
    (rx[s].open /\ ~rx[s].lagged /\ rx[s].from = 0)
    => IsPrefix(rx[s].got, messages)

(* ===================== opencode::normalize_logs ======================== *)
\* a match on the mode that replaces the content in both arms
ApplyModeSet(content, text, mode) == text

\* `match mode`: Append is push_str, Set replaces (normalize.rs:200-203)
ApplyMode(content, text, mode) == IF mode = "Append" THEN content \o text ELSE text

\* a test that takes every lone newline for a leading one
IsAnyNewline(is_new, text) == text = << "\n" >>

\* `is_new && text == "\n"` (normalize.rs:190)
IsLeadingNewline(is_new, text) == is_new /\ text = << "\n" >>

\* update_streaming_text (normalize.rs:178-204): empty text and a lone newline
\* for a message not in the map are ignored; otherwise the entry is made if
\* absent and the text is appended to it or replaces it
update_streaming_text(text, message_id, map, mode) ==
  IF text = << >> THEN map
  ELSE IF IsLeadingNewline(~map[message_id].has, text) THEN map
  ELSE [map EXCEPT ![message_id] =
          [has |-> TRUE, content |-> ApplyMode(@.content, text, mode)]]

\* LogState::handle_part_update (normalize.rs:136-175) for text and reasoning
\* parts: a text part counts only for a message whose role is Assistant; the
\* delta, if there is one, is appended, otherwise the part's text is set
handle_part_update(state, part, has_delta, delta) ==
  LET text == IF has_delta THEN delta ELSE part.text
      mode == IF has_delta THEN "Append" ELSE "Set"
  IN  CASE part.kind = "text" ->
             IF state.message_roles[part.message_id] # "assistant" THEN state
             ELSE [state EXCEPT !.assistant_text =
                     update_streaming_text(text, part.message_id, @, mode)]
        [] part.kind = "reasoning" ->
             [state EXCEPT !.thinking_text =
                update_streaming_text(text, part.message_id, @, mode)]
        [] OTHER -> state

\* LogState::handle_sdk_event (normalize.rs:98-127): message.updated records
\* the role, message.part.updated goes to handle_part_update, the other events
\* change nothing
handle_sdk_event(state, event) ==
  CASE event.type = "message.updated" ->
         [state EXCEPT !.message_roles[event.id] = event.role]
    [] event.type = "message.part.updated" ->
         handle_part_update(state, [kind |-> event.kind, message_id |-> event.id,
                                    text |-> event.text], event.has_delta, event.delta)
    [] OTHER -> state

\* parse_event (normalize.rs:70-72) of the two lines of Lines: an SdkEvent with
\* a message.part.updated for a reasoning part of message m1, with the line's
\* text as its delta or as the part's text
parse_event(line) ==
  [type |-> "message.part.updated", id |-> "m1", role |-> "none", kind |-> "reasoning",
   text |-> IF line.delta \/ line.text = "" THEN << >> ELSE << line.text >>,
   has_delta |-> line.delta,
   delta |-> IF line.delta /\ line.text # "" THEN << line.text >> ELSE << >>]

\* process_line (normalize.rs:49-68)
process_line(state, line) == handle_sdk_event(state, parse_event(line))

\* the loop over a get_all result: `if let LogMsg::Stdout(line) = msg`
\* (normalize.rs:19-23 and 36-40), from a new LogState
Replay(msgs) ==
  LET F[i \in 0..Len(msgs)] ==
        IF i = 0 THEN NewLogState
        ELSE IF msgs[i].kind = "Stdout" THEN process_line(F[i - 1], msgs[i].line)
        ELSE F[i - 1]
  IN  F[Len(msgs)]

\* the lines of the Stdout messages among msgs, in order
StdoutLines(msgs) ==
  LET F[i \in 0..Len(msgs)] ==
        IF i = 0 THEN << >>
        ELSE IF msgs[i].kind = "Stdout" THEN Append(F[i - 1], msgs[i].line)
        ELSE F[i - 1]
  IN  F[Len(msgs)]

\* the task starts: the existing messages are processed (normalize.rs:16-23)
nz_get_all ==
  /\ nz.pc = "get_all"
  /\ nz' = [pc |-> "subscribe", state |-> Replay(messages), processed |-> StdoutLines(messages)]
  /\ lastAll' = [by |-> "normalizer", val |-> messages]
  /\ UNCHANGED << messages, chan, rx, pushing, pushed >>
  /\ UNCHANGED << smVars, rsVars, bkVars, restVars >>

\* `let mut rx = msg_store.subscribe()` (normalize.rs:26)
nz_subscribe ==
  /\ nz.pc = "subscribe"
  /\ rx' = [rx EXCEPT !["normalizer"] = NewRx]
  /\ nz' = [nz EXCEPT !.pc = "recv"]
  /\ UNCHANGED << messages, chan, pushing, pushed, lastAll >>
  /\ UNCHANGED << smVars, rsVars, bkVars, restVars >>

\* one turn of the loop: rx.recv().await returns (normalize.rs:27-45)
nz_recv ==
  /\ nz.pc = "recv"
  /\ ~RxEmpty(rx["normalizer"])
  /\ IF RxLagged(rx["normalizer"])
       THEN \* Err(Lagged): a new LogState, and the whole history again
            /\ rx' = [rx EXCEPT !["normalizer"] = AfterLagged(@)]
            /\ nz' = [nz EXCEPT !.state = Replay(messages), !.processed = StdoutLines(messages)]
            /\ lastAll' = [by |-> "normalizer", val |-> messages]
       ELSE /\ rx' = [rx EXCEPT !["normalizer"] = AfterRecv(@)]
            /\ LET msg == SlotOf(rx["normalizer"]).val
               IN  nz' = IF msg.kind = "Stdout"
                           THEN [nz EXCEPT !.state = process_line(@, msg.line),
                                           !.processed = Append(@, msg.line)]
                         ELSE IF msg.kind = "Finished"
                           THEN [nz EXCEPT !.pc = "done"]
                         ELSE nz
            /\ UNCHANGED lastAll
  /\ UNCHANGED << messages, chan, pushing, pushed >>
  /\ UNCHANGED << smVars, rsVars, bkVars, restVars >>

\* a producer and the normalize_logs task on one store
NormalizeNext ==
  \/ \E p \in Producers, msg \in LogMsgs : push_store(p, msg)
  \/ \E p \in Producers : push_send(p)
  \/ nz_get_all
  \/ nz_subscribe
  \/ nz_recv

NormalizeSpec == Init /\ [][NormalizeNext]_vars

\* the same under the scheduling of the runtime: the spawned task is polled
\* whenever it can go on (it is woken when a value is sent to its receiver),
\* and a push that has stored its message goes on to send it, there being no
\* await in MsgStore::push; producers are not obliged to push
FairNormalizeSpec ==
  /\ Init
  /\ [][NormalizeNext]_vars
  /\ WF_vars(nz_get_all)
  /\ WF_vars(nz_subscribe)
  /\ WF_vars(nz_recv)
  /\ WF_vars(\E p \in Producers : push_send(p))

(* ===================== opencode::normalize::LogState =================== *)
\* the role of each message: the message.updated events of one message all
\* carry the same role
RoleOf == [m1 |-> "assistant", m2 |-> "user"]

\* the delta fragments of part updates
Fragments == { << >>, << "\n" >>, << "a" >>, << "\n", "a" >> }

\* the texts of parts updated without a delta
PartTexts == { << "b" >>, << "\n" >> }

\* the SDK events fed to the LogState
SdkEvents ==
  { [NoSdkEvent EXCEPT !.type = "message.updated", !.id = id, !.role = RoleOf[id]] :
      id \in MessageIds }
  \cup { [NoSdkEvent EXCEPT !.type = "message.part.updated", !.id = id, !.kind = k,
                            !.has_delta = TRUE, !.delta = d] :
           id \in MessageIds, k \in TextKinds, d \in Fragments }
  \cup { [NoSdkEvent EXCEPT !.type = "message.part.updated", !.id = id, !.kind = k,
                            !.text = t] :
           id \in MessageIds, k \in TextKinds, t \in PartTexts }

\* what was fed for a kind of part and a message, after one more event
FedAfter(f, event) ==
  IF event.has_delta
    THEN [f EXCEPT !.deltas = Append(@, event.delta),
                   !.unowned = @ \/ ( /\ event.kind = "text"
                                      /\ ls.state.message_roles[event.id] # "assistant" )]
    ELSE [f EXCEPT !.set = TRUE]

\* state.handle_sdk_event(&event) on the next event (normalize.rs:58-60)
ls_event(event) ==
  /\ ls.n < MaxParts
  /\ ls' = [state |-> handle_sdk_event(ls.state, event),
            fed |-> IF event.type = "message.part.updated"
                      THEN [ls.fed EXCEPT ![event.kind][event.id] = FedAfter(@, event)]
                      ELSE ls.fed,
            n |-> ls.n + 1,
            last |-> event,
            before |-> ls.state]
  /\ UNCHANGED << smVars, msVars, rsVars, bkVars, evVars, wtVars, prVars >>

LogStateNext == \E event \in SdkEvents : ls_event(event)

LogStateSpec == Init /\ [][LogStateNext]_vars

(* ========================== claims: LogState =========================== *)
\* the map of a LogState that holds the streaming text of a kind of part
TextMap(state, kind) == IF kind = "text" THEN state.assistant_text ELSE state.thinking_text

\* the fragments joined in order
Concat(frags) ==
  LET F[i \in 0..Len(frags)] == IF i = 0 THEN << >> ELSE F[i - 1] \o frags[i]
  IN  F[Len(frags)]

\* the fragments from the first one on that is neither empty nor a lone newline
FromFirstText(frags) ==
  LET starts == { i \in 1..Len(frags) : frags[i] \notin { << >>, << "\n" >> } }
  IN  IF starts = {} THEN << >>
      ELSE LET first == CHOOSE i \in starts : \A j \in starts : i <= j
           IN  SubSeq(frags, first, Len(frags))

\* C23 as stated: for a message that got only delta updates of a kind of part,
\* text or reasoning, the streaming text held is the concatenation of all the
\* fragments.
C23_StreamingTextIsConcatenation ==
  \A k \in TextKinds, id \in MessageIds :
    ~ls.fed[k][id].set
      => TextMap(ls.state, k)[id].content = Concat(ls.fed[k][id].deltas)

\* C23 amended: for reasoning parts, and for text parts of a message whose
\* recorded role was assistant at each fragment, the streaming text is the
\* concatenation of the fragments from the first one on that is neither empty
\* nor a lone newline; a message that is not the assistant's holds no text.
C23_StreamingTextIsConcatenationAfterLeadingNewlines ==
  /\ \A k \in TextKinds, id \in MessageIds :
       (~ls.fed[k][id].set /\ ~ls.fed[k][id].unowned)
         => TextMap(ls.state, k)[id].content = Concat(FromFirstText(ls.fed[k][id].deltas))
  /\ \A id \in MessageIds :
       RoleOf[id] # "assistant" => ~ls.state.assistant_text[id].has

\* two fragments of the assistant's text of m1 arrived, a fragment with text
\* and one that begins with a newline
C23_Witness ==
  /\ ls.fed["text"]["m1"] = [deltas |-> << << "a" >>, << "\n", "a" >> >>,
                            set |-> FALSE, unowned |-> FALSE]
  /\ ls.state.assistant_text["m1"] = [has |-> TRUE, content |-> << "a", "\n", "a" >>]

\* the latest event is a delta of a text or reasoning part
DeltaFed ==
  ls.last.type = "message.part.updated" /\ ls.last.kind \in TextKinds /\ ls.last.has_delta

\* C24: a delta that is a lone newline, for a message with no streaming text
\* of that kind yet, creates no entry; for a message that has text it is
\* appended; and the first fragment with text, after dropped newlines, starts
\* the text.
C24_LeadingNewlineDropped ==
  DeltaFed =>
    LET old == TextMap(ls.before, ls.last.kind)[ls.last.id]
        new == TextMap(ls.state, ls.last.kind)[ls.last.id]
        owned == ls.last.kind = "reasoning"
                   \/ ls.before.message_roles[ls.last.id] = "assistant"
    IN  /\ (ls.last.delta = << "\n" >> /\ ~old.has) => new = NoText
        /\ (ls.last.delta = << "\n" >> /\ old.has)
             => new = [has |-> TRUE, content |-> old.content \o << "\n" >>]
        /\ (ls.last.delta \notin { << >>, << "\n" >> } /\ ~old.has /\ owned)
             => new = [has |-> TRUE, content |-> ls.last.delta]

\* a newline was dropped, a fragment started the reasoning text of m1, and a
\* second newline was appended to it
C24_Witness ==
  /\ DeltaFed
  /\ ls.last.delta = << "\n" >>
  /\ ls.fed["reasoning"]["m1"].deltas = << << "\n" >>, << "a" >>, << "\n" >> >>
  /\ ls.state.thinking_text["m1"] = [has |-> TRUE, content |-> << "a", "\n" >>]

(* ======================= claims: normalize_logs ======================== *)
\* C15: when the normalizer has returned from a Lagged error at least once and
\* then has nothing left to receive, with no push in progress, its state is the
\* state a single pass over the store's whole history, in order, gives.
C15_LaggedResyncEqualsSinglePass ==
  ( /\ nz.pc = "recv"
    /\ rx["normalizer"].lagged
    /\ RxEmpty(rx["normalizer"])
    /\ InFlight = 0 )
  => nz.state = Replay(messages)

\* C39: when the normalizer, which never got a Lagged error, has nothing left
\* to receive and no push is in progress, the lines it has processed are the
\* lines of the Stdout messages pushed so far, each once and in push order,
\* wherever the pushes fell relative to its get_all and its subscribe.
C39_StartupProcessesEachMessageOnce ==
  ( /\ nz.pc = "recv"
    /\ ~rx["normalizer"].lagged
    /\ RxEmpty(rx["normalizer"])
    /\ InFlight = 0 )
  => nz.processed = StdoutLines(pushed)

\* Finished is in the store
FinishedStored == \E i \in 1..Len(messages) : messages[i] = Finished

\* C40: whenever Finished is in the store, whether it was pushed before the
\* normalizer task read the history or after it subscribed, the task
\* eventually leaves its loop.
C40_NormalizerTerminatesAfterFinished == FinishedStored ~> (nz.pc = "done")

(* ====================== opencode::sdk::run_session ===================== *)
\* the messages run_session and its listener push
SessionIdMsg == [kind |-> "SessionId", line |-> NoLine]
Event(name) == [kind |-> "Event", line |-> [delta |-> FALSE, text |-> name]]

\* the messages of session.error events
ErrorMessages == {"e1", "e2"}

\* enum ControlEvent (sdk.rs:55-60)
Idle == [kind |-> "Idle", message |-> ""]
SessionError(message) == [kind |-> "SessionError", message |-> message]
Disconnected == [kind |-> "Disconnected", message |-> ""]

\* msg_store.push of each message of ms, in order
PushAll(ms) ==
  LET V[i \in 0..Len(ms)] == IF i = 0 THEN messages ELSE VecPush(V[i - 1], ms[i])
      C[i \in 0..Len(ms)] == IF i = 0 THEN chan ELSE NotifySend(C[i - 1], ms[i])
  IN  /\ messages' = V[Len(ms)]
      /\ chan' = IF \E s \in Subscribers : rx[s].open THEN C[Len(ms)] ELSE chan
      /\ pushed' = pushed \o ms

\* one poll of the future of a request. The first poll sends the request; it
\* finds the answer at once only if the answer arrives while the poll is still
\* running (the worker thread is suspended in between), otherwise the future is
\* pending until the server answers. mayFail: the request can fail at once.
IoPoll(fut, mayFail) ==
  IF fut = "new"
    THEN {[fut |-> "sent", ready |-> FALSE], [fut |-> "ok", ready |-> TRUE]}
         \cup (IF mayFail THEN {[fut |-> "err", ready |-> TRUE]} ELSE {})
  ELSE IF fut = "sent" THEN {[fut |-> "sent", ready |-> FALSE]}
  ELSE {[fut |-> fut, ready |-> TRUE]}

\* one poll of `async { if let Some(rx) = interrupt_rx.take() { let _ = rx.await; } }`
\* (sdk.rs:81-85 and the same block at 99, 112, 140, 231, 266): the first poll
\* moves the receiver out of interrupt_rx; with no receiver to take the block
\* completes at once
IntPoll(r) ==
  IF r.held \/ r.interrupt_rx = "some"
    THEN [interrupt_rx |-> "none", held |-> TRUE, ready |-> signal = "sent"]
    ELSE [interrupt_rx |-> "none", held |-> FALSE, ready |-> TRUE]

\* control_rx.recv() is ready: an event is queued, or every sender is gone
CtlReady == control # << >> \/ listener \in {"done", "aborted"}

\* tokio::select!: the branches are polled in order until one is ready; the
\* winner, or "pending", with the locals as the polls left them
RECURSIVE Poll(_, _, _)
Poll(order, r, mayFail) ==
  IF order = << >> THEN {[winner |-> "pending", r |-> r]}
  ELSE LET rest == Tail(order)
       IN  CASE Head(order) = "io" ->
                  UNION { IF o.ready
                            THEN {[winner |-> "io", r |-> [r EXCEPT !.fut = o.fut]]}
                            ELSE Poll(rest, [r EXCEPT !.fut = o.fut], mayFail)
                          : o \in IoPoll(r.fut, mayFail) }
             [] Head(order) = "int" ->
                  LET o == IntPoll(r)
                      r2 == [r EXCEPT !.interrupt_rx = o.interrupt_rx, !.held = o.held]
                  IN  IF o.ready THEN {[winner |-> "int", r |-> r2]}
                      ELSE Poll(rest, r2, mayFail)
             [] Head(order) = "ctl" ->
                  IF CtlReady THEN {[winner |-> "ctl", r |-> r]}
                  ELSE Poll(rest, r, mayFail)

\* the branches of a select in the order they are polled when the poll starts
\* at branch `start` (tokio picks the start at random)
Rot(branches, start) ==
  [i \in 1..Len(branches) |-> branches[((start + i - 1) % Len(branches)) + 1]]

\* the outcomes of one poll of a select
Select(branches, r, mayFail) ==
  UNION { Poll(Rot(branches, start), r, mayFail) : start \in 0..(Len(branches) - 1) }

\* what a step of run_session leaves: its locals, the messages it pushed, the
\* listener task and the control channel
Out(r, push, lst, ctl) == [run |-> r, push |-> push, listener |-> lst, control |-> ctl]

\* run_session returns res; the futures of the select it was in are dropped
RunReturns(r, res, message) ==
  [r EXCEPT !.pc = "done", !.result = res, !.message = message, !.held = FALSE,
            !.suspended = FALSE]

\* the step to the next await: the futures of the finished select are dropped,
\* and with them a receiver the interrupt branch had taken
Goes(r, pc) == [r EXCEPT !.pc = pc, !.held = FALSE, !.fut = "new", !.suspended = FALSE]

\* the poll found no branch ready: run_session is suspended at the select
Pending(r) == [r EXCEPT !.suspended = TRUE]

\* session_error after one more SessionError (sdk.rs:238-245, 273-280)
Accumulate(existing, message) ==
  IF existing # << >> THEN existing \o << "\n", message >> ELSE << message >>

\* event_handle.abort() (sdk.rs:180, 184): a task that has returned stays as it
\* is; a running task is cancelled when it next yields, which another worker
\* thread may let happen after abort() has returned
Abort(lst) == IF lst = "running" THEN "aborting" ELSE lst

\* run_session after run_prompt_with_control returned (sdk.rs:178-192)
AfterControl(r, res, message, ctl) ==
  IF r.interrupt_rx = "none"
    THEN Out([r EXCEPT !.pc = "abort", !.held = FALSE, !.suspended = FALSE], << >>, listener, ctl)
  ELSE IF res = "Err"
    THEN Out(RunReturns(r, "Err", message), << >>, Abort(listener), ctl)
  ELSE Out(RunReturns(r, "Ok", << >>), << Event("Done"), Finished >>, Abort(listener), ctl)

\* run_prompt_with_control after the idle wait (sdk.rs:292-299)
AfterIdle(r, ctl) ==
  IF r.session_error # << >> /\ r.interrupt_rx # "none"
    THEN AfterControl(r, "Err", r.session_error, ctl)
    ELSE AfterControl(r, "Ok", << >>, ctl)

\* a run_prompt_with_control that does not wait for session.idle after the prompt
AfterPromptNoWait(r) ==
  IF r.interrupt_rx = "none" THEN AfterControl(r, "Ok", << >>, control)
  ELSE IF r.fut = "err" THEN AfterControl(r, "Err", << "prompt failed" >>, control)
  ELSE AfterIdle(r, control)

\* run_prompt_with_control after the prompt loop broke with the prompt's result
\* (sdk.rs:256-262)
AfterPrompt(r) ==
  IF r.interrupt_rx = "none" THEN AfterControl(r, "Ok", << >>, control)
  ELSE IF r.fut = "err" THEN AfterControl(r, "Err", << "prompt failed" >>, control)
  ELSE IF r.idle_seen THEN AfterIdle(r, control)
  ELSE Out([r EXCEPT !.pc = "idle_wait", !.held = FALSE, !.suspended = FALSE], << >>, listener, control)

\* the handler of `event = control_rx.recv()` in the prompt loop (sdk.rs:237-252)
OnControlInPrompt(r) ==
  IF control = << >>
    THEN Out([r EXCEPT !.held = FALSE, !.suspended = FALSE], << >>, listener, control)
  ELSE LET event == Head(control)
           r0 == [r EXCEPT !.held = FALSE, !.suspended = FALSE]
       IN  CASE event.kind = "SessionError" ->
                  Out([r0 EXCEPT !.session_error = Accumulate(@, event.message)],
                      << >>, listener, Tail(control))
             [] event.kind = "Disconnected" ->
                  LET r1 == [r0 EXCEPT !.disconnected_at = "prompt"]
                  IN  IF r.interrupt_rx = "some"
                        THEN AfterControl(r1, "Err", << "disconnected while prompt was running" >>,
                                          Tail(control))
                        ELSE AfterControl(r1, "Ok", << >>, Tail(control))
             [] event.kind = "Idle" ->
                  Out([r0 EXCEPT !.idle_seen = TRUE], << >>, listener, Tail(control))

\* the handler of `event = control_rx.recv()` in the idle wait (sdk.rs:271-287)
OnControlInIdleWait(r) ==
  IF control = << >> THEN AfterIdle([r EXCEPT !.held = FALSE, !.suspended = FALSE], control)
  ELSE LET event == Head(control)
           r0 == [r EXCEPT !.held = FALSE, !.suspended = FALSE]
       IN  CASE event.kind = "Idle" -> AfterIdle(r0, Tail(control))
             [] event.kind = "SessionError" ->
                  Out([r0 EXCEPT !.session_error = Accumulate(@, event.message)],
                      << >>, listener, Tail(control))
             [] event.kind = "Disconnected" ->
                  LET r1 == [r0 EXCEPT !.disconnected_at = "idle_wait"]
                  IN  IF r.interrupt_rx = "some"
                        THEN AfterControl(r1, "Err",
                                          << "disconnected while waiting for session to go idle" >>,
                                          Tail(control))
                        ELSE AfterControl(r1, "Ok", << >>, Tail(control))

\* history: what the poll of a request found out about the server
SeenBy(r, isPrompt) ==
  [seen EXCEPT !.failed = @ \/ (run.fut = "new" /\ r.fut = "err"),
               !.prompt_ok = @ \/ (isPrompt /\ run.fut = "new" /\ r.fut = "ok")]

\* a step of run_session takes effect
Takes(out, isPrompt) ==
  /\ run' = out.run
  /\ PushAll(out.push)
  /\ listener' = out.listener
  /\ control' = out.control
  /\ seen' = SeenBy(out.run, isPrompt)
  /\ UNCHANGED << signal, rx, pushing, lastAll, nz >>
  /\ UNCHANGED << smVars, bkVars, restVars >>

\* the select of wait_for_health and the interrupt (sdk.rs:79-92);
\* wait_for_health fails only when its 20 s are over
rs_health ==
  /\ run.pc = "health"
  /\ \E o \in Select(<< "io", "int" >>, run, FALSE) :
       Takes(Out(CASE o.winner = "pending" -> Pending(o.r)
                   [] o.winner = "int" -> RunReturns(o.r, "Ok", << >>)
                   [] o.winner = "io" ->
                        IF o.r.fut = "ok" THEN Goes(o.r, "create")
                        ELSE RunReturns(o.r, "Err", << "health timed out" >>),
                 << >>, listener, control), FALSE)

\* the select of create_session, or fork_session, and the interrupt, and the
\* two pushes after it (sdk.rs:95-131)
rs_create ==
  /\ run.pc = "create"
  /\ \E o \in Select(<< "io", "int" >>, run, TRUE) :
       Takes(CASE o.winner = "pending" -> Out(Pending(o.r), << >>, listener, control)
               [] o.winner = "int" -> Out(RunReturns(o.r, "Ok", << >>), << >>, listener, control)
               [] o.winner = "io" ->
                    IF o.r.fut = "ok"
                      THEN Out(Goes(o.r, "connect"), << SessionIdMsg, Event("SessionStart") >>,
                               listener, control)
                      ELSE Out(RunReturns(o.r, "Err", << "create failed" >>), << >>,
                               listener, control),
             FALSE)

\* the select of connect_event_stream and the interrupt, and the spawn of the
\* listener (sdk.rs:135-161)
rs_connect ==
  /\ run.pc = "connect"
  /\ \E o \in Select(<< "io", "int" >>, run, TRUE) :
       Takes(CASE o.winner = "pending" -> Out(Pending(o.r), << >>, listener, control)
               [] o.winner = "int" -> Out(RunReturns(o.r, "Ok", << >>), << >>, listener, control)
               [] o.winner = "io" ->
                    IF o.r.fut = "ok"
                      THEN Out(Goes(o.r, "prompt"), << >>, "running", control)
                      ELSE Out(RunReturns(o.r, "Err", << "connect failed" >>), << >>,
                               listener, control),
             FALSE)

\* one poll of the select of the prompt loop (sdk.rs:229-254) and, when the
\* loop ends, the code up to the next await
rs_prompt ==
  /\ run.pc = "prompt"
  /\ \E o \in Select(<< "int", "io", "ctl" >>, run, TRUE) :
       Takes(CASE o.winner = "pending" -> Out(Pending(o.r), << >>, listener, control)
               [] o.winner = "int" -> AfterControl(o.r, "Ok", << >>, control)
               [] o.winner = "io" -> AfterPrompt(o.r)
               [] o.winner = "ctl" -> OnControlInPrompt(o.r),
             TRUE)

\* one poll of the select of the idle wait (sdk.rs:264-289) and, when the loop
\* ends, the code up to the next await
rs_idle_wait ==
  /\ run.pc = "idle_wait"
  /\ \E o \in Select(<< "int", "ctl" >>, run, TRUE) :
       Takes(CASE o.winner = "pending" -> Out(Pending(o.r), << >>, listener, control)
               [] o.winner = "int" -> AfterControl(o.r, "Ok", << >>, control)
               [] o.winner = "ctl" -> OnControlInIdleWait(o.r),
             FALSE)

\* send_abort returns, after at most 800 ms; the listener is aborted and
\* run_session returns Ok (sdk.rs:179-181)
rs_abort ==
  /\ run.pc = "abort"
  /\ Takes(Out([RunReturns(run, "Ok", << >>) EXCEPT !.aborted = TRUE], << >>, Abort(listener),
               control),
           FALSE)

\* the server answers the request run_session is waiting for
server_answer(outcome) ==
  /\ run.pc \in {"health", "create", "connect", "prompt"}
  /\ run.fut = "sent"
  /\ run' = [run EXCEPT !.fut = outcome]
  /\ seen' = [seen EXCEPT !.failed = @ \/ outcome = "err",
                          !.prompt_ok = @ \/ (run.pc = "prompt" /\ outcome = "ok")]
  /\ UNCHANGED << signal, control, listener >>
  /\ UNCHANGED << smVars, msVars, bkVars, restVars >>

\* the caller signals the interrupt before run_session has returned; the history
\* keeps the await run_session was suspended at, if it was suspended
interrupt ==
  /\ run.pc \in {"health", "create", "connect", "prompt", "idle_wait"}
  /\ signal = "unsent"
  /\ signal' = "sent"
  /\ seen' = [seen EXCEPT !.signalled_at = IF run.suspended THEN run.pc ELSE "running"]
  /\ UNCHANGED << run, control, listener >>
  /\ UNCHANGED << smVars, msVars, bkVars, restVars >>

\* a listener that goes on reading the stream after session.idle
ListenerKeepsReading(event) == "running"

\* the listener after an event: process_event_stream returns Idle after
\* session.idle and the listener returns with it (sdk.rs:676-679, 582)
ListenerAfter(event) == IF event.kind = "Idle" THEN "done" ELSE "running"

\* the events the listener has forwarded to the store
Forwarded == Len(SelectSeq(messages, LAMBDA msg : msg = Event("SdkEvent")))

\* process_event_stream reads a session.error or the session.idle event of
\* this session: the event is pushed and the control event is sent; after
\* session.idle the listener returns (sdk.rs:668-691, 582)
listener_event(event) ==
  /\ listener = "running"
  /\ event.kind = "SessionError" => Len(seen.errors) < MaxErrors
  /\ PushAll(<< Event("SdkEvent") >>)
  /\ control' = Append(control, event)
  /\ listener' = ListenerAfter(event)
  /\ seen' = IF event.kind = "Idle" THEN [seen EXCEPT !.idle = TRUE]
             ELSE [seen EXCEPT !.errors = Append(@, event.message)]
  /\ UNCHANGED << run, signal, rx, pushing, lastAll, nz >>
  /\ UNCHANGED << smVars, bkVars, restVars >>

\* the stream is lost and max_attempts reconnects have failed: the listener
\* sends Disconnected and returns (sdk.rs:553-557, 584-588)
listener_disconnect ==
  /\ listener = "running"
  /\ control' = Append(control, Disconnected)
  /\ listener' = "done"
  /\ seen' = [seen EXCEPT !.failed = TRUE]
  /\ UNCHANGED << run, signal >>
  /\ UNCHANGED << smVars, msVars, bkVars, restVars >>

\* the listener, aborted but not yet cancelled, is still inside a poll of
\* process_event_stream and pushes one more event (sdk.rs:668-673); what it
\* sends on the control channel is never received, since run_session calls
\* control_rx.recv() no more after abort()
listener_late ==
  /\ listener = "aborting"
  /\ Forwarded <= MaxErrors
  /\ PushAll(<< Event("SdkEvent") >>)
  /\ UNCHANGED << run, signal, control, listener, seen, rx, pushing, lastAll, nz >>
  /\ UNCHANGED << smVars, bkVars, restVars >>

\* the aborted listener yields and is cancelled: its future is dropped and
\* with it control_tx
listener_cancelled ==
  /\ listener = "aborting"
  /\ listener' = "aborted"
  /\ UNCHANGED << run, signal, control, seen >>
  /\ UNCHANGED << smVars, msVars, bkVars, restVars >>

RunNext ==
  \/ rs_health
  \/ rs_create
  \/ rs_connect
  \/ rs_prompt
  \/ rs_idle_wait
  \/ rs_abort
  \/ \E outcome \in {"ok", "err"} : server_answer(outcome)
  \/ interrupt
  \/ \E event \in {Idle} \cup { SessionError(e) : e \in ErrorMessages } : listener_event(event)
  \/ listener_disconnect
  \/ listener_late
  \/ listener_cancelled

RunSpec == Init /\ [][RunNext]_vars

(* ========================= claims: run_session ========================= *)
\* run_session has returned
RunDone == run.result # "none"

\* the messages in the store other than the events the listener forwarded
RunPushes == SelectSeq(messages, LAMBDA msg : msg # Event("SdkEvent"))

\* the messages of session.error events joined by newlines
Joined(errors) ==
  LET F[i \in 0..Len(errors)] ==
        IF i = 0 THEN << >>
        ELSE IF i = 1 THEN << errors[1] >>
        ELSE F[i - 1] \o << "\n", errors[i] >>
  IN  F[Len(errors)]

\* C16: when the interrupt is never signalled, the server fails no request and
\* does not lose the event stream, and it reports no session.error, a
\* run_session that has returned has returned Ok and has pushed SessionId,
\* SessionStart, Done and Finished, in this order.
C16_HappyPathPushesAndReturnsOk ==
  (RunDone /\ signal = "unsent" /\ ~seen.failed /\ seen.errors = << >>)
  => /\ run.result = "Ok"
     /\ RunPushes = << SessionIdMsg, Event("SessionStart"), Event("Done"), Finished >>

\* C17: when the interrupt was signalled while run_session was suspended, it
\* returns Ok, neither Done nor Finished is in the store, and if the signal came
\* during the prompt race or the idle wait, the abort request was issued.
C17_InterruptReturnsOkWithoutDone ==
  (RunDone /\ seen.signalled_at \in {"health", "create", "connect", "prompt", "idle_wait"})
  => /\ run.result = "Ok"
     /\ \A i \in 1..Len(messages) : messages[i] \notin {Event("Done"), Finished}
     /\ seen.signalled_at \in {"prompt", "idle_wait"} => run.aborted

\* C18: a run_session that returned an error on a Disconnected control event
\* received the event while the prompt call was outstanding, not in the idle wait.
C18_DisconnectedFailsOnlyDuringPrompt ==
  (RunDone /\ run.result = "Err" /\ run.disconnected_at # "none")
  => run.disconnected_at = "prompt"

\* C19: when the interrupt was never signalled, the prompt call succeeded and
\* session.error events arrived before session.idle, a run_session that has
\* returned has returned an error whose message is the events' messages joined by
\* newlines in arrival order, and neither Done nor Finished is in the store.
C19_SessionErrorsFailTheRun ==
  (RunDone /\ signal = "unsent" /\ seen.prompt_ok /\ seen.errors # << >> /\ seen.idle)
  => /\ run.result = "Err"
     /\ run.message = Joined(seen.errors)
     /\ \A i \in 1..Len(messages) : messages[i] \notin {Event("Done"), Finished}

\* C30: run_session has issued the abort request only if the interrupt was
\* signalled.
C30_AbortOnlyAfterInterrupt == run.aborted => signal = "sent"

\* Done or Finished is in the store
DonePushed == \E i \in 1..Len(messages) : messages[i] \in {Event("Done"), Finished}

\* run_session has received the Idle control event: the listener has sent it
\* and it is no longer queued
IdleReceived == seen.idle /\ \A i \in 1..Len(control) : control[i] # Idle

\* control_rx.recv() can return None: the listener is gone and nothing is queued
ControlClosed == listener \in {"done", "aborted"} /\ control = << >>

C38_FinishedIsLastMessage ==
  \A i \in 1..Len(messages) :
    messages[i] = Finished
      => /\ i = Len(messages)
         /\ i > 1
         /\ messages[i - 1] = Event("Done")

\* the listener forwarded the session.idle event and returned, and
\* run_session has pushed Finished after it, aborted the listener and returned
C38_Witness ==
  /\ RunDone
  /\ Len(messages) > 2
  /\ messages[Len(messages)] = Finished
  /\ messages[Len(messages) - 2] = Event("SdkEvent")
  /\ listener = "done"

(* ================== opencode::sdk::exponential_backoff ================= *)
\* Duration::from_secs(30) (sdk.rs:601-602), in milliseconds
CapMs == 30000

\* the largest exponent (sdk.rs:598)
ExpCap == 10

\* base delays: the default, and delays a server can set with the retry field
\* of an event (sdk.rs:639-641)
Bases == {0, 1, 29, 30, DefaultBaseMs, CapMs, 45000, DurationMaxMs}

Min(a, b) == IF a <= b THEN a ELSE b

\* u32::saturating_sub
saturating_sub(a, b) == IF a > b THEN a - b ELSE 0

\* an exponent that forgets the `- 1`
ExponentOfAttempt(attempt) == Min(attempt, ExpCap)

\* `attempt.saturating_sub(1).min(10)` (sdk.rs:598)
Exponent(attempt) == Min(saturating_sub(attempt, 1), ExpCap)

\* Duration::checked_mul: None (-1) when the product is above Duration::MAX
checked_mul(base, mult) == IF base > DurationMaxMs \div mult THEN -1 ELSE base * mult

\* exponential_backoff (sdk.rs:597-603), durations in milliseconds
exponential_backoff(base, attempt) ==
  LET exp == Exponent(attempt)
      mult == 2 ^ exp
      product == checked_mul(base, mult)
  IN  Min(IF product = -1 THEN CapMs ELSE product, CapMs)

\* a call of exponential_backoff
backoff_call(base, attempt) ==
  /\ backoff' = [base |-> base, attempt |-> attempt,
                 delay |-> exponential_backoff(base, attempt)]
  /\ UNCHANGED << smVars, msVars, rsVars, restVars >>

BackoffNext == \E base \in Bases, attempt \in 0..MaxAttempt : backoff_call(base, attempt)

BackoffSpec == Init /\ [][BackoffNext]_vars

(* ===================== claims: exponential_backoff ===================== *)
\* min(base * 2^n, 30 s), computed by doubling under the cap
DoubledUnderCap(base, n) ==
  LET F[k \in 0..n] == IF k = 0 THEN Min(base, CapMs) ELSE Min(2 * F[k - 1], CapMs)
  IN  F[n]

\* a call with attempt >= 1 has returned
BackoffCalled == backoff.delay # -1 /\ backoff.attempt >= 1

\* C20, as stated: for every attempt >= 1 the delay is min(base * 2^(attempt-1), 30 s).
C20_DelayIsUncappedExponentUnder30s ==
  BackoffCalled => backoff.delay = DoubledUnderCap(backoff.base, backoff.attempt - 1)

\* C20, amended: for every attempt >= 1 the delay is
\* min(base * 2^min(attempt-1, 10), 30 s); with the default base of 3 s the
\* attempts 1..5 give 3 s, 6 s, 12 s, 24 s, 30 s; no call gives more than 30 s,
\* and the shift `1u32 << exp` is by less than the 32 bits of its operand.
C20_DelayIsCappedExponentUnder30s ==
  /\ BackoffCalled
     => backoff.delay = DoubledUnderCap(backoff.base, Min(backoff.attempt - 1, ExpCap))
  /\ (BackoffCalled /\ backoff.base = DefaultBaseMs /\ backoff.attempt <= 5)
     => backoff.delay = << 3000, 6000, 12000, 24000, 30000 >>[backoff.attempt]
  /\ backoff.delay <= CapMs
  /\ Exponent(backoff.attempt) < 32

\* a small base at an attempt beyond the largest exponent: the delay stays
\* at base * 2^10, below 30 s
C20_Witness ==
  /\ backoff.attempt > ExpCap + 1
  /\ backoff.base = 29
  /\ backoff.delay = 29 * 1024


(* ================= opencode::sdk::spawn_event_listener ================= *)
\* `let max_attempts: u32 = 20` (sdk.rs:529)
max_attempts == 20

\* the session id of the run the listener belongs to
OurSession == "ours"

\* a filter that lets an envelope without a session id through
event_matches_session_or_none(event_type, event, session_id) ==
  LET extracted ==
        CASE event_type = "message.updated" -> event.isid
          [] event_type = "message.part.updated" -> event.qsid
          [] OTHER -> event.psid
  IN  extracted \in {session_id, "none"}

\* event_matches_session (sdk.rs:697-724): the place the session id is read from
\* depends on the type; the types not named try the three places in turn
event_matches_session(event_type, event, session_id) ==
  LET extracted ==
        CASE event_type = "message.updated" -> event.isid
          [] event_type = "message.part.updated" -> event.qsid
          [] event_type \in {"permission.asked", "permission.replied", "session.idle",
                             "session.error"} -> event.psid
          [] OTHER -> IF event.psid # "none" THEN event.psid
                      ELSE IF event.isid # "none" THEN event.isid
                      ELSE event.qsid
  IN  extracted = session_id

\* the items a stream can deliver: a retry field comes with empty data
Items ==
  { [data |-> "empty", retry |-> r, env |-> NoEnvelope, id |-> << >>] : r \in Retries }
  \cup { [data |-> d, retry |-> 0, env |-> NoEnvelope, id |-> << >>] : d \in {"nonjson", "notype"} }
  \cup { [data |-> "json", retry |-> 0, env |-> e, id |-> << >>] : e \in Envelopes }

\* the id fields a stream can deliver: none, blank, two ids, one of them also
\* with a space in front
EventIds == { << >>, << " " >>, << "1" >>, << " ", "1" >>, << "2" >> }

\* the retry fields of the items that carry ids
IdRetries == {0, 1000, 2000}

\* items that carry only an id or a retry field
IdItems ==
  { [data |-> "empty", retry |-> r, env |-> NoEnvelope, id |-> i] : r \in IdRetries, i \in EventIds }

\* str::trim of an id
RECURSIVE trim(_)
trim(s) ==
  IF s = << >> THEN s
  ELSE IF Head(s) = " " THEN trim(Tail(s))
  ELSE IF s[Len(s)] = " " THEN trim(SubSeq(s, 1, Len(s) - 1))
  ELSE s

\* a listener that forgets the id when an event without one arrives
LatestIdOrNone(last_event_id, id) ==
  IF trim(id) # << >> THEN [some |-> TRUE, value |-> trim(id)] ELSE NoEventId

\* `if !evt.id.trim().is_empty() { *ctx.last_event_id = Some(...) }` (sdk.rs:636-638)
NextLastEventId(last_event_id, id) ==
  IF trim(id) # << >> THEN [some |-> TRUE, value |-> trim(id)] ELSE last_event_id

\* connect_event_stream: the header is set only for Some (sdk.rs:487-489)
LastEventIdHeader(last_event_id) ==
  IF last_event_id.some THEN [sent |-> TRUE, value |-> last_event_id.value] ELSE NoHeader

\* the id and retry fields read so far, with the ones of one more item
Fields(hist, item) ==
  IF item.id # << >> \/ item.retry # 0
    THEN Append(hist, [id |-> item.id, retry |-> item.retry]) ELSE hist

\* the message of a session.error envelope (sdk.rs:681-686)
ErrorMessageOf(event) == IF event.msg = "none" THEN "OpenCode session error" ELSE event.msg

\* no control event
NoControl == [kind |-> "none", message |-> ""]

\* the control event sent for a forwarded envelope: `match event_type`
\* (sdk.rs:675-691)
ControlEventOf(event) ==
  CASE event.type = "session.idle" -> Idle
    [] event.type = "session.error" -> SessionError(ErrorMessageOf(event))
    [] OTHER -> NoControl

\* a stream loop that a session.error ends as well
ReturnsIdleOrError(event_type) == event_type \in {"session.idle", "session.error"}

\* the arm that returns EventStreamOutcome::Idle (sdk.rs:676-679)
ReturnsIdle(event_type) == event_type = "session.idle"

\* `if attempt >= max_attempts` (sdk.rs:554, 585)
GivesUp(attempt) == attempt >= max_attempts

\* `attempt += 1`, then give up with Disconnected or sleep for the backoff delay
\* (sdk.rs:553-559 and 584-592)
AfterFailure(l) ==
  LET attempt == l.attempt + 1
  IN  IF GivesUp(attempt)
        THEN [l EXCEPT !.attempt = attempt, !.pc = "done"]
        ELSE [l EXCEPT !.attempt = attempt, !.pc = "sleep",
                       !.delay = exponential_backoff(l.base, attempt)]

\* the control events on the channel after such a failure
ControlAfterFailure(l) ==
  IF GivesUp(l.attempt + 1) THEN Append(control, Disconnected) ELSE control

\* process_event_stream reads one item and handles it (sdk.rs:633-691); after a
\* matching session.idle it returns Idle and the listener returns (sdk.rs:582)
el_item(item) ==
  /\ el.pc = "stream"
  /\ el.nev < MaxEvents
  /\ LET l == [el EXCEPT !.nev = @ + 1, !.last = item,
                         !.last_event_id = NextLastEventId(@, item.id),
                         !.base = IF item.retry # 0 THEN item.retry ELSE @,
                         !.hist = Fields(@, item)]
         matches == /\ item.data = "json"
                    /\ event_matches_session(item.env.type, item.env, OurSession)
     IN  IF item.data = "nonjson"
           THEN /\ PushAll(<< Event("Error") >>)
                /\ el' = [l EXCEPT !.did = [pushed |-> "Error", sent |-> "none"]]
                /\ UNCHANGED control
         ELSE IF ~matches
           THEN /\ el' = [l EXCEPT !.did = NoDid]
                /\ UNCHANGED << messages, chan, pushed, control >>
         ELSE /\ PushAll(<< Event("SdkEvent") >>)
              /\ control' = IF ControlEventOf(item.env) = NoControl THEN control
                            ELSE Append(control, ControlEventOf(item.env))
              /\ el' = [l EXCEPT !.pc = IF ReturnsIdle(item.env.type) THEN "done" ELSE @,
                                 !.did = [pushed |-> "SdkEvent",
                                          sent |-> ControlEventOf(item.env).kind]]
  /\ UNCHANGED << rx, pushing, lastAll, nz >>
  /\ UNCHANGED << run, signal, listener, seen >>
  /\ UNCHANGED << smVars, bkVars, lgVars, wtVars, prVars >>

\* the stream ends, or an item of it is an error: process_event_stream returns
\* Disconnected or Err (sdk.rs:634, 694, 583-592)
el_stream_end(how) ==
  /\ el.pc = "stream"
  /\ el' = [AfterFailure(el) EXCEPT !.failed = 0, !.last = NoItem, !.did = NoDid]
  /\ control' = ControlAfterFailure(el)
  /\ UNCHANGED << run, signal, listener, seen >>
  /\ UNCHANGED << smVars, msVars, bkVars, lgVars, wtVars, prVars >>

\* the sleep is over: `resp = None`, and the next turn of the loop calls
\* connect_event_stream (sdk.rs:559-560, 592-593, 539)
el_wake ==
  /\ el.pc = "sleep"
  /\ el' = [el EXCEPT !.pc = "connect"]
  /\ UNCHANGED << run, signal, control, listener, seen >>
  /\ UNCHANGED << smVars, msVars, bkVars, lgVars, wtVars, prVars >>

\* connect_event_stream returns (sdk.rs:539-562)
el_connect(outcome) ==
  /\ el.pc = "connect"
  /\ LET l == [el EXCEPT !.hdr = LastEventIdHeader(el.last_event_id), !.reconnects = 1]
     IN  IF outcome = "ok"
           THEN /\ el' = [l EXCEPT !.pc = "stream", !.attempt = 0, !.failed = 0]
                /\ UNCHANGED << messages, chan, pushed, control >>
           ELSE /\ Len(messages) < MaxStore
                /\ PushAll(<< Event("Error") >>)
                /\ el' = [AfterFailure(l) EXCEPT !.failed = @ + 1]
                /\ control' = ControlAfterFailure(el)
  /\ UNCHANGED << rx, pushing, lastAll, nz >>
  /\ UNCHANGED << run, signal, listener, seen >>
  /\ UNCHANGED << smVars, bkVars, lgVars, wtVars, prVars >>

\* a listener whose stream delivers nothing: it ends, and reconnecting fails or not
ReconnectNext ==
  \/ \E how \in {"end", "err"} : el_stream_end(how)
  \/ el_wake
  \/ \E outcome \in {"ok", "err"} : el_connect(outcome)

ReconnectSpec == Init /\ [][ReconnectNext]_vars

\* the same with a server that answers: a stream that is open ends, a sleep
\* ends, a connection request is answered
FairReconnectSpec ==
  /\ Init
  /\ [][ReconnectNext]_vars
  /\ WF_vars(\E how \in {"end", "err"} : el_stream_end(how))
  /\ WF_vars(el_wake)
  /\ WF_vars(\E outcome \in {"ok", "err"} : el_connect(outcome))

\* a listener whose stream delivers items and whose server accepts every reconnection
ListenerNext ==
  \/ \E item \in Items : el_item(item)
  \/ \E how \in {"end", "err"} : el_stream_end(how)
  \/ el_wake
  \/ \E outcome \in {"ok"} : el_connect(outcome)

ListenerSpec == Init /\ [][ListenerNext]_vars

\* connect_event_stream returns, from a server that refuses at most MaxRefusals
\* requests in all (each refusal leaves an Error event in the store)
el_reconnect(outcome) ==
  /\ outcome = "err" => Len(messages) < MaxRefusals
  /\ el_connect(outcome)

\* a listener whose stream delivers id and retry fields and drops
StreamIdNext ==
  \/ \E item \in IdItems : el_item(item)
  \/ \E how \in {"end", "err"} : el_stream_end(how)
  \/ el_wake
  \/ \E outcome \in {"ok", "err"} : el_reconnect(outcome)

StreamIdSpec == Init /\ [][StreamIdNext]_vars


(* ==================== claims: spawn_event_listener ===================== *)
\* the number of Disconnected control events sent so far
DisconnectedSent == Cardinality({ i \in 1..Len(control) : control[i] = Disconnected })

\* C21: after the stream dropped the listener makes at most 20 reconnect
\* attempts, it has sent Disconnected only when 20 reconnect attempts have failed
\* since the drop, and it sends Disconnected at most once.
C21_GivesUpAfterTwentyFailedReconnects ==
  /\ el.failed <= 20
  /\ DisconnectedSent <= 1
  /\ DisconnectedSent > 0 => el.failed = 20

\* C22: the listener task terminates, whatever the server does, as long as the
\* server keeps answering and session.idle never arrives.
C22_ListenerTerminates == <>(el.pc = "done")


\* an envelope that carries this run's session id at one of its three places
ForThisSession(event) == OurSession \in {event.psid, event.isid, event.qsid}

\* the step reads an item of the stream
ReadsItem == el'.nev = el.nev + 1

\* C28: an envelope that carries this run's session id nowhere (another
\* session's or none) is not pushed to the MsgStore, sends no control event and
\* does not end the listener, whatever its type; every envelope forwarded and
\* every Idle or SessionError sent is for this run's session.
C28_OnlyOwnSessionForwarded ==
  [][ReadsItem =>
       /\ (el'.last.data = "json" /\ ~ForThisSession(el'.last.env))
            => (messages' = messages /\ control' = control /\ el'.pc = "stream")
       /\ (messages' # messages /\ el'.did.pushed = "SdkEvent")
            => (el'.last.data = "json" /\ ForThisSession(el'.last.env))
       /\ control' # control => (el'.last.data = "json" /\ ForThisSession(el'.last.env))]_vars

\* a session.idle of another session was read and the listener is still reading
C28_Witness ==
  /\ el.pc = "stream"
  /\ el.nev > 0
  /\ el.last.data = "json"
  /\ el.last.env.type = "session.idle"
  /\ el.last.env.psid = "other"
  /\ el.did = NoDid
  /\ messages = << >>
  /\ control = << >>

\* the envelope is of the given type and its /properties/sessionID is this run's
Matching(item, type) ==
  item.data = "json" /\ item.env.type = type /\ item.env.psid = OurSession

\* the number of Idle control events sent so far
IdleSent == Cardinality({ i \in 1..Len(control) : control[i] = Idle })

\* C29: a matching session.idle is pushed, one Idle is sent and the listener is
\* over: it does nothing afterwards; a matching session.error is pushed, one
\* SessionError is sent and the listener goes on reading, so several
\* session.error events can be delivered; Idle is sent at most once.
C29_IdleEndsListenerErrorDoesNot ==
  [][ /\ (ReadsItem /\ Matching(el'.last, "session.idle"))
           => /\ messages' = Append(messages, Event("SdkEvent"))
              /\ control' = Append(control, Idle)
              /\ el'.pc = "done"
      /\ (ReadsItem /\ Matching(el'.last, "session.error"))
           => /\ messages' = Append(messages, Event("SdkEvent"))
              /\ control' = Append(control, SessionError(ErrorMessageOf(el'.last.env)))
              /\ el'.pc = "stream"
      /\ (el.pc = "done" /\ el.did.sent = "Idle")
           => (el' = el /\ messages' = messages /\ control' = control)
      /\ IdleSent <= 1 ]_vars

\* two session.error events were delivered and the listener is still reading
C29_Witness ==
  /\ el.pc = "stream"
  /\ Len(control) = 2
  /\ \A i \in 1..2 : control[i].kind = "SessionError"
  /\ messages = << Event("SdkEvent"), Event("SdkEvent") >>


\* the largest number of a non-empty set of numbers
MaxOf(S) == CHOOSE x \in S : \A y \in S : y <= x

\* the places in hist of the events that carried an id that is not blank, and
\* of the ones that carried a retry field
WithId(hist) == { i \in 1..Len(hist) : trim(hist[i].id) # << >> }
WithRetry(hist) == { i \in 1..Len(hist) : hist[i].retry # 0 }

\* the header a reconnection is to carry: the id, without the blanks around it,
\* of the most recent event that had one; none when no event had one
ExpectedHeader(hist) ==
  IF WithId(hist) = {} THEN NoHeader
  ELSE [sent |-> TRUE, value |-> trim(hist[MaxOf(WithId(hist))].id)]

\* the backoff base: the most recent retry value, 3 s when there was none
ExpectedBase(hist) ==
  IF WithRetry(hist) = {} THEN 3000 ELSE hist[MaxOf(WithRetry(hist))].retry

\* C32: the first connection carries no Last-Event-ID header; every
\* reconnection request carries the id of the most recent event that had a
\* non-blank id, and no header when no event had one; every sleep before a
\* reconnection is the backoff delay of the most recent retry value received,
\* 3 s when none was received.
C32_ReconnectSendsLastEventId ==
  [][ /\ el.reconnects = 0 => el.hdr = NoHeader
      /\ (el.pc = "connect" /\ el'.pc # "connect") => el'.hdr = ExpectedHeader(el.hist)
      /\ (el.pc # "sleep" /\ el'.pc = "sleep")
           => el'.delay = exponential_backoff(ExpectedBase(el.hist), el'.attempt) ]_vars

\* ids "2" then "1" and retry values 2000 then 1000 arrived, the stream dropped
\* and the reconnection, sent with Last-Event-ID 1, was refused: the listener
\* sleeps for twice the base of 1 s
C32_Witness ==
  /\ el.pc = "sleep"
  /\ el.reconnects = 1
  /\ el.hist = << [id |-> << "2" >>, retry |-> 2000], [id |-> << "1" >>, retry |-> 1000] >>
  /\ el.hdr = [sent |-> TRUE, value |-> << "1" >>]
  /\ el.attempt = 2
  /\ el.delay = 2000


(* =============== server::worktree::generate_branch_name ================ *)
\* characters, as tokens; e_acute and E_acute are U+00E9 and U+00C9
LowerAscii == {"a", "b", "d", "e", "f", "g", "h", "i", "l", "n", "o", "r", "u", "w", "x"}
UpperAscii == {"F", "H", "W"}
DigitChars == {"1"}
Punctuation == {" ", "!"}
Chars == LowerAscii \cup UpperAscii \cup DigitChars \cup Punctuation \cup {"-", "e_acute", "E_acute"}

\* char::is_alphanumeric, which is true of letters and digits of every script
is_alphanumeric(c) == c \in LowerAscii \cup UpperAscii \cup DigitChars \cup {"e_acute", "E_acute"}

\* the lowercase form of a character (str::to_lowercase, character by character)
LowerOf(c) ==
  CASE c = "F" -> "f" [] c = "H" -> "h" [] c = "W" -> "w" [] c = "E_acute" -> "e_acute"
    [] OTHER -> c

\* the number of bytes of a character in UTF-8
Utf8Len(c) == IF c \in {"e_acute", "E_acute"} THEN 2 ELSE 1

\* str::len: the length in bytes
ByteLen(s) ==
  LET F[i \in 0..Len(s)] == IF i = 0 THEN 0 ELSE F[i - 1] + Utf8Len(s[i])
  IN  F[Len(s)]

\* the `50` of `trimmed.len() > 50` and `&trimmed[..50]` (worktree.rs:49-50)
SlugBytes == 50

\* the map over the characters and to_lowercase (worktree.rs:36-46)
Sanitize(slug) ==
  [i \in 1..Len(slug) |-> LowerOf(IF is_alphanumeric(slug[i]) \/ slug[i] = "-" THEN slug[i] ELSE "-")]

\* str::trim_matches('-') (worktree.rs:48)
trim_matches(s) ==
  LET keep == { i \in 1..Len(s) : s[i] # "-" }
  IN  IF keep = {} THEN << >>
      ELSE SubSeq(s, CHOOSE i \in keep : \A j \in keep : i <= j,
                     CHOOSE i \in keep : \A j \in keep : j <= i)

\* the numbers of leading characters of s that end at byte n
PrefixesOfBytes(s, n) == { k \in 0..Len(s) : ByteLen(SubSeq(s, 1, k)) = n }

\* generate_branch_name (worktree.rs:35-56): `&trimmed[..50]` slices by bytes and
\* panics when byte 50 is inside a character; the result is the panic or the
\* formatted name, "task/", the id and "-" followed by the slug
worktree_generate_branch_name(task_id, slug) ==
  LET trimmed == trim_matches(Sanitize(slug))
      cut == PrefixesOfBytes(trimmed, SlugBytes)
  IN  IF ByteLen(trimmed) > SlugBytes
        THEN IF cut = {}
               THEN [panic |-> TRUE, out |-> << >>]
               ELSE [panic |-> FALSE,
                     out |-> << "task/", task_id, "-" >> \o SubSeq(trimmed, 1, CHOOSE k \in cut : TRUE)]
        ELSE [panic |-> FALSE, out |-> << "task/", task_id, "-" >> \o trimmed]

\* n times the character c
Repeat(c, n) == [i \in 1..n |-> c]

\* the sequences over S of length at most n
SeqsUpTo(S, n) == UNION { [1..k -> S] : k \in 0..n }

\* the slugs of the unit test of worktree.rs and of the specification's examples
FixLoginBug == << "F", "i", "x", " ", "l", "o", "g", "i", "n", " ", "b", "u", "g", "!" >>
HelloWorld == << "H", "e", "l", "l", "o", " ", "W", "o", "r", "l", "d", "!" >>

\* the characters that follow the filler
TailChars == {"a", "F", "1", "-", "!", "e_acute", "E_acute"}

\* slugs: the examples, and a run of "a" of a length around the limit followed
\* by a short tail
Slugs ==
  {FixLoginBug, HelloWorld}
  \cup { Repeat("a", n) \o tail :
           n \in {0, SlugBytes - 2, SlugBytes - 1, SlugBytes}, tail \in SeqsUpTo(TailChars, MaxTail) }

\* task ids
BranchTaskIds == {1, 123}

\* the call of generate_branch_name
bn_call(task_id, slug) ==
  /\ ~bn.called
  /\ LET r == worktree_generate_branch_name(task_id, slug)
     IN  bn' = [called |-> TRUE, task_id |-> task_id, slug |-> slug, panic |-> r.panic,
                out |-> r.out]
  /\ UNCHANGED cw
  /\ UNCHANGED << smVars, msVars, rsVars, bkVars, evVars, lgVars, prVars >>

BranchNameNext == \E task_id \in BranchTaskIds, slug \in Slugs : bn_call(task_id, slug)

BranchNameSpec == Init /\ [][BranchNameNext]_vars

(* ==================== claims: generate_branch_name ===================== *)
\* the slug of a returned name: what follows "task/", the id and "-"
SlugOf(out) == SubSeq(out, 4, Len(out))

\* the characters of a slug as stated: lowercase letters, digits and hyphens
SlugChars == LowerAscii \cup DigitChars \cup {"-", "e_acute"}

\* C25: for every task id and slug, generate_branch_name returns (it does not
\* panic) "task/<id>-" followed by a slug of at most 50 characters, all lowercase
\* letters, digits or hyphens, not beginning with a hyphen; (123, "Fix login
\* bug!") gives "task/123-fix-login-bug" and (1, "Hello World!") gives
\* "task/1-hello-world".
C25_BranchNameWellFormed ==
  bn.called =>
    /\ ~bn.panic
    /\ SubSeq(bn.out, 1, 3) = << "task/", bn.task_id, "-" >>
    /\ Len(SlugOf(bn.out)) <= 50
    /\ \A i \in 1..Len(SlugOf(bn.out)) : SlugOf(bn.out)[i] \in SlugChars
    /\ SlugOf(bn.out) # << >> => SlugOf(bn.out)[1] # "-"
    /\ (bn.task_id = 123 /\ bn.slug = FixLoginBug)
         => SlugOf(bn.out) = << "f", "i", "x", "-", "l", "o", "g", "i", "n", "-", "b", "u", "g" >>
    /\ (bn.task_id = 1 /\ bn.slug = HelloWorld)
         => SlugOf(bn.out) = << "h", "e", "l", "l", "o", "-", "w", "o", "r", "l", "d" >>


(* ================== server::worktree::create_worktree ================== *)
\* worktree_path_for_task (worktree.rs:31-33)
worktree_path_for_task(task_id) == << "worktrees", "task-", task_id >>

\* task ids (in decimal) and branch names create_worktree is called with: a
\* branch that exists, the branch of the earlier session and a new one
CreateTaskIds == {"1", "2"}
CreateBranches == { << "dev" >>, generate_branch_name("tA"), << "new" >> }

\* `stderr.contains("already exists")` (worktree.rs:76)
ShouldRetry(stderr) == stderr = "already exists"

\* call, create_dir_all of the parent, which may fail with an IO error
\* (worktree.rs:63-67)
cw_call(task_id, branch) ==
  /\ cw.pc = "idle"
  /\ cw.n < MaxCalls
  /\ LET call == [NoCreate EXCEPT !.n = cw.n + 1, !.task_id = task_id, !.branch = branch,
                                  !.path = worktree_path_for_task(task_id)]
     IN  \/ cw' = [call EXCEPT !.pc = "git_add"]
         \/ cw' = [call EXCEPT !.res = "IoError"]
  /\ UNCHANGED bn
  /\ UNCHANGED << smVars, msVars, rsVars, bkVars, evVars, lgVars, prVars >>

\* `git worktree add -b <branch> <path>` (worktree.rs:69-96): git cannot be
\* run (`?`), or it succeeds, or it fails and its stderr says that the branch
\* or the path already exists, or it fails with another message (the repository
\* is locked, the messages are not in English, ...)
cw_git_add ==
  /\ cw.pc = "git_add"
  /\ \/ /\ cw' = [cw EXCEPT !.pc = "idle", !.first = "io", !.res = "IoError"]
        /\ UNCHANGED << gitWorktrees, gitBranches >>
     \/ /\ GitAddNewBranchOk(cw.path, cw.branch)
        /\ gitWorktrees' = gitWorktrees \cup {[path |-> cw.path, branch |-> cw.branch]}
        /\ gitBranches' = gitBranches \cup {cw.branch}
        /\ cw' = [cw EXCEPT !.pc = "idle", !.first = "ok", !.res = "Ok"]
     \/ /\ \E stderr \in {"already exists", "other"} :
             /\ stderr = "already exists" => ~GitAddNewBranchOk(cw.path, cw.branch)
             /\ cw' = IF ShouldRetry(stderr)
                        THEN [cw EXCEPT !.pc = "git_retry", !.first = "failed"]
                        ELSE [cw EXCEPT !.pc = "idle", !.first = "failed", !.res = "GitError"]
        /\ UNCHANGED << gitWorktrees, gitBranches >>
  /\ UNCHANGED bn
  /\ UNCHANGED << sessions, execs, turns, registry, regLock, procs, tails, cl, ret, ncalls,
                  stopCalls, startedOk, clock >>
  /\ UNCHANGED << msVars, rsVars, bkVars, evVars, lgVars, prVars >>

\* `git worktree add <path> <branch>` (worktree.rs:77-88)
cw_git_retry ==
  /\ cw.pc = "git_retry"
  /\ \/ /\ cw' = [cw EXCEPT !.pc = "idle", !.second = "io", !.res = "IoError"]
        /\ UNCHANGED gitWorktrees
     \/ /\ GitAddExistingOk(cw.path, cw.branch)
        /\ gitWorktrees' = gitWorktrees \cup {[path |-> cw.path, branch |-> cw.branch]}
        /\ cw' = [cw EXCEPT !.pc = "idle", !.second = "ok", !.res = "Ok"]
     \/ /\ cw' = [cw EXCEPT !.pc = "idle", !.second = "failed", !.res = "GitError"]
        /\ UNCHANGED gitWorktrees
  /\ UNCHANGED bn
  /\ UNCHANGED << sessions, execs, turns, registry, regLock, procs, tails, gitBranches, cl, ret,
                  ncalls, stopCalls, startedOk, clock >>
  /\ UNCHANGED << msVars, rsVars, bkVars, evVars, lgVars, prVars >>

\* calls of create_worktree, one after the other
WorktreeNext ==
  \/ \E task_id \in CreateTaskIds, branch \in CreateBranches : cw_call(task_id, branch)
  \/ cw_git_add
  \/ cw_git_retry

WorktreeSpec == Init /\ [][WorktreeNext]_vars

(* ======================= claims: create_worktree ======================= *)
\* C26: a create_worktree call whose first git command ran and failed has made
\* the second attempt before it returned; it returns a Git error only when both
\* attempts failed, and Ok when the second attempt succeeded.
C26_RetriesOnAnyFailure ==
  (cw.pc = "idle" /\ cw.res # "none")
    => /\ cw.first = "failed" => cw.second # "none"
       /\ cw.res = "GitError" => (cw.first = "failed" /\ cw.second = "failed")
       /\ cw.second = "ok" => cw.res = "Ok"


(* ========================= opencode::sdk::prompt ======================= *)
\* the HTTP statuses of the answer to the prompt request
HttpStatuses == {199, 200, 204, 299, 300, 404, 500}

\* the bodies of the answer. kind: "empty", "blank" (white space only),
\* "nonjson", "array" (JSON that is no object) or "object"; for an object,
\* whether it has the keys info and parts, whether name is absent, a string or
\* a number, and the same for /data/message
Bodies ==
  { [kind |-> k, info |-> FALSE, parts |-> FALSE, name |-> "absent", message |-> "absent"] :
      k \in {"empty", "blank", "nonjson", "array"} }
  \cup [kind : {"object"}, info : BOOLEAN, parts : BOOLEAN,
        name : {"absent", "string", "number"}, message : {"absent", "string", "number"}]

\* the answers of the server
Responses ==
  { [status |-> st, kind |-> b.kind, info |-> b.info, parts |-> b.parts, name |-> b.name,
     message |-> b.message] : st \in HttpStatuses, b \in Bodies }

\* a status test that takes every status below 300 for a success
is_success_below_300(status) == status < 300

\* StatusCode::is_success: 200..=299
is_success(status) == 200 <= status /\ status <= 299

\* `parsed.get("info").is_some() && parsed.get("parts").is_some()` (sdk.rs:429)
IsSuccessShape(resp) == resp.kind = "object" /\ resp.info /\ resp.parts

\* prompt after the answer arrived (sdk.rs:410-446): Ok, or the error with the
\* parts its message is made of
prompt(resp) ==
  IF ~is_success(resp.status)
    THEN [ok |-> FALSE, error |-> << "failed: HTTP", "status", "body" >>]
  ELSE IF resp.kind \in {"empty", "blank"}
    THEN [ok |-> FALSE, error |-> << "returned empty response body" >>]
  ELSE IF resp.kind = "nonjson"
    THEN [ok |-> FALSE, error |-> << "serde_json::Error" >>]
  ELSE IF IsSuccessShape(resp)
    THEN [ok |-> TRUE, error |-> << >>]
  ELSE IF resp.kind = "object" /\ resp.name = "string"
    THEN [ok |-> FALSE,
          error |-> << "failed:", "name",
                       IF resp.message = "string" THEN "data.message" ELSE "body" >>]
  ELSE [ok |-> FALSE, error |-> << "returned unexpected response:", "body" >>]

\* the server answers the prompt request
pr_call(resp) ==
  /\ ~pr.called
  /\ pr' = [called |-> TRUE, resp |-> resp, ok |-> prompt(resp).ok, error |-> prompt(resp).error]
  /\ UNCHANGED << smVars, msVars, rsVars, bkVars, evVars, lgVars, wtVars >>

PromptNext == \E resp \in Responses : pr_call(resp)

PromptSpec == Init /\ [][PromptNext]_vars

(* ============================ claims: prompt =========================== *)
\* the parts of an error message
PartsOf(error) == { error[i] : i \in 1..Len(error) }

\* C33: prompt returns Ok exactly when the status is 2xx and the body is a JSON
\* object with the keys info and parts; every other answer is an error with a
\* message: a non-2xx status (reported with the status), an empty body, an
\* object with a name (reported with the name and its data.message) and every
\* other body.
C33_PromptSucceedsIffInfoAndParts ==
  pr.called =>
    /\ pr.ok <=> (pr.resp.status \div 100 = 2 /\ pr.resp.kind = "object"
                   /\ pr.resp.info /\ pr.resp.parts)
    /\ ~pr.ok => pr.error # << >>
    /\ pr.resp.status \div 100 # 2 => "status" \in PartsOf(pr.error)
    /\ (~pr.ok /\ pr.resp.status \div 100 = 2 /\ pr.resp.name = "string"
         /\ pr.resp.message = "string")
       => {"name", "data.message"} \subseteq PartsOf(pr.error)

\* a 2xx answer in the error shape was reported with its data.message
C33_Witness ==
  /\ pr.called
  /\ pr.resp.status = 200
  /\ pr.resp.name = "string"
  /\ pr.resp.message = "string"
  /\ ~pr.ok
  /\ "data.message" \in PartsOf(pr.error)

====
